---------------------------- MODULE Spec2Model ----------------------------
(***************************************************************************)
(* Model of the deploy engine's Docker service                             *)
(* (packages/deploy-engine/src/services/docker): the orchestrator          *)
(* DockerService (index.ts), the container lifecycle (container.ts), the   *)
(* image builder (image-builder.ts) and the runtime bridge (exec.ts).      *)
(*                                                                         *)
(* Every public call is an asynchronous function: it runs from one await   *)
(* to the next without interruption, and other calls may run in between.   *)
(* A call is a record in `calls`; each action below is the code of one     *)
(* call between two awaits, together with the effect of the runtime        *)
(* command it awaits.  The container runtime itself is the environment:    *)
(* `containers` and `images` are what `docker` holds.                      *)
(***************************************************************************)
EXTENDS Integers, Sequences, FiniteSets, TLC

VARIABLES
    containers,    \* runtime: container name -> container (or NoContainer)
    images,        \* runtime: image references, oldest first
    logStreamers,  \* DockerService._logStreamers: project id -> cancel handle
    streams,       \* `docker logs -f` processes whose handle was not cancelled
    calls,         \* the calls in flight, one per caller
    begun,         \* how many calls were made so far
    last,          \* the operation of the call that returned last
    health,        \* one run of waitForHealthy, and the clock it reads
    build,         \* one run of buildImage, and the source directory it works in
    applied,       \* one application of a pure function: arguments and result
    bridge         \* one call of the runtime bridge, and the process it spawns

vars == <<containers, images, logStreamers, streams, calls, begun, last, health, build, applied, bridge>>

\* what the orchestrator's calls work on
service == <<containers, images, logStreamers, streams, calls, begun, last>>

---------------------------------------------------------------------------
(* Identifiers are character sequences, as the naming rule slices them.    *)

Rep(ch, n) == [i \in 1..n |-> ch]

NameLen == 8

PA == Rep("a", NameLen) \o <<"1">>
PB == Rep("b", NameLen) \o <<"1">>
ProjectIds == {PA, PB}

B1 == <<"n", "1">>
B2 == <<"n", "2">>
BuildIds == {B1, B2}

\* builds made before this process started
O1 == <<"o", "1">>
O2 == <<"o", "2">>
O3 == <<"o", "3">>

NoId == <<>>

\* String.prototype.slice(0, n)
Slice(s, n) == SubSeq(s, 1, IF Len(s) < n THEN Len(s) ELSE n)

ContainerPrefix == <<"t", "h", "a", "k", "u", "r", "-">>
ImagePrefix == <<"t", "h", "a", "k", "u", "r", "-", "d", "e", "p", "l", "o", "y", "/">>

\* variant: the whole identifier is used
getContainerName_Whole(projectId) == ContainerPrefix \o projectId

getContainerName(projectId) == ContainerPrefix \o Slice(projectId, NameLen)

getImageName(projectId, buildId) ==
    ImagePrefix \o Slice(projectId, NameLen) \o <<":">> \o Slice(buildId, NameLen)

ContainerNames == {getContainerName(p) : p \in ProjectIds}

---------------------------------------------------------------------------
(* The runtime's containers.                                               *)

NoContainer ==
    [id |-> 0, status |-> "absent", projectId |-> NoId, buildId |-> NoId, image |-> NoId]

Container(id, status, projectId, buildId) ==
    [id |-> id, status |-> status, projectId |-> projectId, buildId |-> buildId,
     image |-> getImageName(projectId, buildId)]

\* variant: a container that was created and never started is not seen
containerExists_NotCreated(cs, name) == cs[name].status \in {"running", "exited"}

\* variant: only a running container counts as existing
containerExists_OnlyRunning(cs, name) == cs[name].status = "running"

\* `docker container inspect NAME` exits 0
containerExists(cs, name) == cs[name].status # "absent"

\* `docker inspect --format '{{.Id}} {{.State.Status}}' NAME`
getContainerInfo(cs, name) ==
    IF cs[name].status = "absent" THEN NoContainer ELSE cs[name]

isContainerRunning(cs, name) == getContainerInfo(cs, name).status = "running"

\* `docker stop -t 10 NAME`: a running container exits, any other one is left
\* as it is, and an absent one makes the command fail without effect.
stopContainer(cs, name) ==
    IF cs[name].status = "running" THEN [cs EXCEPT ![name].status = "exited"] ELSE cs

\* `docker rm -f NAME`: the container is gone afterwards, whatever its state
removeContainer(cs, name) == [cs EXCEPT ![name] = NoContainer]

\* variant: removal without -f, which fails on an absent container
removeExit_Unforced(cs, name) == IF cs[name].status = "absent" THEN 1 ELSE 0

\* exit status of `docker rm -f NAME`: forced removal of an absent container is
\* not an error
removeExit(cs, name) == 0

---------------------------------------------------------------------------
(* The runtime's images: a sequence of references in creation order.       *)

Range(s) == {s[i] : i \in DOMAIN s}

RECURSIVE Without(_, _)
Without(s, x) ==
    IF s = <<>> THEN <<>>
    ELSE IF Head(s) = x THEN Without(Tail(s), x)
    ELSE <<Head(s)>> \o Without(Tail(s), x)

RECURSIVE Filter(_, _)
Filter(s, keep) ==
    IF s = <<>> THEN <<>>
    ELSE IF Head(s) \in keep THEN <<Head(s)>> \o Filter(Tail(s), keep)
    ELSE Filter(Tail(s), keep)

Reverse(s) == [i \in 1..Len(s) |-> s[Len(s) + 1 - i]]

\* an image a running container uses cannot be removed, even with -f
ImageInUse(cs, image) ==
    \E n \in DOMAIN cs : cs[n].status = "running" /\ cs[n].image = image

\* `docker rmi -f IMAGE` exits 0
removeImageOk(cs, imgs, image) == image \in Range(imgs) /\ ~ImageInUse(cs, image)

\* the images after `docker rmi -f IMAGE`
removeImage(cs, imgs, image) ==
    IF removeImageOk(cs, imgs, image) THEN Without(imgs, image) ELSE imgs

---------------------------------------------------------------------------
(* The log-stream registry and the stream processes.                       *)

Smallest(S) == CHOOSE i \in S : \A j \in S : i <= j

FreshIn(used) == Smallest((1..(Cardinality(used) + 1)) \ used)

\* spawn('docker', ['logs', '-f', '--tail', '0', containerName]); the value
\* returned is the handle that kills this process
streamContainerLogs(strs, id, containerName, sink, owner) ==
    strs \cup {[id |-> id, name |-> containerName, sink |-> sink, owner |-> owner]}

\* variant: the handle kills every process that follows the same container
cancel_SameContainer(strs, id) ==
    {s \in strs : \A x \in strs : x.id = id => s.name # x.name}

\* calling the handle: proc.kill('SIGTERM')
cancel(strs, id) == {s \in strs : s.id # id}

stopLogStreaming(reg, strs, projectId) ==
    IF reg[projectId] # 0
    THEN [reg |-> [reg EXCEPT ![projectId] = 0], strs |-> cancel(strs, reg[projectId])]
    ELSE [reg |-> reg, strs |-> strs]

\* variant: the registered handle is replaced without being called
startLogStreaming_NoStop(reg, strs, projectId, buildId) ==
    LET id == FreshIn({x.id : x \in strs} \cup {reg[q] : q \in DOMAIN reg})
    IN  [reg  |-> [reg EXCEPT ![projectId] = id],
         strs |-> streamContainerLogs(strs, id, getContainerName(projectId),
                                      buildId, projectId)]

startLogStreaming(reg, strs, projectId, buildId) ==
    LET s  == stopLogStreaming(reg, strs, projectId)
        id == FreshIn({x.id : x \in s.strs} \cup {s.reg[q] : q \in DOMAIN s.reg})
    IN  [reg  |-> [s.reg EXCEPT ![projectId] = id],
         strs |-> streamContainerLogs(s.strs, id, getContainerName(projectId),
                                      buildId, projectId)]

\* variant: the listing is taken with -a, so stopped containers are listed too
listRunningContainers_All(cs) ==
    {[containerName |-> n, projectId |-> cs[n].projectId, buildId |-> cs[n].buildId] :
        n \in {m \in DOMAIN cs : cs[m].status # "absent"
                                  /\ cs[m].projectId # NoId /\ cs[m].buildId # NoId}}

\* `docker ps --filter label=thakur.projectId`: the running containers that
\* carry both labels
listRunningContainers(cs) ==
    {[containerName |-> n, projectId |-> cs[n].projectId, buildId |-> cs[n].buildId] :
        n \in {m \in DOMAIN cs : cs[m].status = "running"
                                  /\ cs[m].projectId # NoId /\ cs[m].buildId # NoId}}

\* the loop of recoverLogStreams over the listed containers
RECURSIVE attachAll(_, _, _)
attachAll(reg, strs, list) ==
    IF list = {} THEN [reg |-> reg, strs |-> strs]
    ELSE LET x == CHOOSE y \in list : TRUE
             s == startLogStreaming(reg, strs, x.projectId, x.buildId)
         IN  attachAll(s.reg, s.strs, list \ {x})

---------------------------------------------------------------------------
(* Image builder, as the orchestrator sees it.                             *)

KeepCount == 3
LogTail == 50

\* the images after `docker build -t IMAGE`: a failed build tags nothing; a
\* successful one tags a new image, or (every layer cached) the image the tag
\* already names, whose creation time is the old one
buildImage(imgs, projectId, buildId, ok, cached) ==
    LET imageName == getImageName(projectId, buildId)
    IN  IF ~ok THEN imgs
        ELSE IF cached /\ imageName \in Range(imgs) THEN imgs
        ELSE Without(imgs, imageName) \o <<imageName>>

\* variant: the listing is not filtered by the project's prefix
projectImages_Unfiltered(imgs, projectId) == Reverse(imgs)

\* `docker images --filter reference=PREFIX:*`, newest first, which the sort by
\* creation time (stable, descending) leaves in that order
projectImages(imgs, projectId) ==
    LET prefix == ImagePrefix \o Slice(projectId, NameLen) \o <<":">>
        mine   == {i \in Range(imgs) : Len(i) >= Len(prefix)
                                        /\ SubSeq(i, 1, Len(prefix)) = prefix}
    IN  Reverse(Filter(imgs, mine))

\* variant: one image more than keepCount is kept
toRemove_OneMore(imgs, projectId, keepCount) ==
    LET l == projectImages(imgs, projectId)
    IN  IF Len(l) > keepCount + 1 THEN SubSeq(l, keepCount + 2, Len(l)) ELSE <<>>

\* images.slice(keepCount)
toRemove(imgs, projectId, keepCount) ==
    LET l == projectImages(imgs, projectId)
    IN  IF Len(l) > keepCount THEN SubSeq(l, keepCount + 1, Len(l)) ELSE <<>>

---------------------------------------------------------------------------
(* Calls.  Besides the code's own locals (pc, todo, list, cid, healthy) a  *)
(* call records what it observed, for the properties below: the runtime    *)
(* operations it issued (trace), the container its run created (made), the *)
(* container whose logs it read and how many lines (logsOf, tail), whether *)
(* the container and the handle it found when it began (found, prev), the *)
(* result of its build (built: "ok" or the error text), the images there   *)
(* were when it listed them for pruning (listed).  keep is the keepCount   *)
(* argument of a pruneProjectImages call.                                  *)

Callers == {"c1", "c2"}

MaxCalls == 3

Idle ==
    [op |-> "idle", p |-> NoId, b |-> NoId, ids |-> <<>>, pc |-> "idle",
     todo |-> <<>>, list |-> {}, cid |-> 0, healthy |-> FALSE,
     out |-> "none", err |-> "none",
     trace |-> <<>>, made |-> 0, logsOf |-> 0, tail |-> 0, found |-> "absent", prev |-> 0, built |-> "none",
     keep |-> 0, listed |-> <<>>]

NoDone == \A c \in Callers : calls[c].pc # "done"

AllIdle == \A c \in Callers : calls[c].op = "idle"

UsedIds ==
    {containers[n].id : n \in ContainerNames}
        \cup {calls[c].cid : c \in Callers} \cup {calls[c].made : c \in Callers}
        \cup {calls[c].logsOf : c \in Callers}

Name(c) == getContainerName(calls[c].p)

Log(c, what) == Append(calls[c].trace, what)

Return(c, out, err, what) ==
    [calls[c] EXCEPT !.pc = "done", !.out = out, !.err = err, !.trace = Log(c, what)]

Enter(op, p, b, pc) ==
    [Idle EXCEPT !.op = op, !.p = p, !.b = b, !.pc = pc,
                 !.found = containers[getContainerName(p)].status,
                 !.prev = logStreamers[p]]

---------------------------------------------------------------------------
(* waitForHealthy, buildImage and the runtime bridge are followed step by  *)
(* step in their own specifications below, and so are the pure functions;  *)
(* while the orchestrator's calls are followed they stay at rest.          *)

NoHealth ==
    [pc |-> "idle", timeoutMs |-> 0, start |-> 0, now |-> 0, result |-> FALSE,
     status |-> 0, polled |-> FALSE, issued |-> 0, ended |-> 0,
     seenOk |-> FALSE, unreached |-> TRUE]

NoBuild == [pc |-> "idle"]

NoApplied == [fn |-> "none"]

NoBridge == [pc |-> "idle"]

---------------------------------------------------------------------------
(* The state at process start: an empty registry, no call in flight, and   *)
(* whatever an earlier run of the service left in the runtime.             *)

Legacy == <<getImageName(PA, O1), getImageName(PA, O2), getImageName(PA, O3)>>

Init ==
    /\ images \in {<<>>, Legacy}
    /\ \E st \in {"absent", "running", "exited"} :
          /\ st # "absent" => images # <<>>
          /\ containers =
                [n \in ContainerNames |->
                    IF n = getContainerName(PA) /\ st # "absent"
                    THEN Container(1, st, PA, O3) ELSE NoContainer]
    /\ logStreamers = [p \in ProjectIds |-> 0]
    /\ streams = {}
    /\ calls = [c \in Callers |-> Idle]
    /\ begun = 0
    /\ last = "none"
    /\ health = NoHealth
    /\ build = NoBuild
    /\ applied = NoApplied
    /\ bridge = NoBridge

\* The state at process start with more left behind: a container of the
\* second project, and a container whose build label is missing.
InitRecover ==
    /\ images \in {<<>>, Legacy}
    /\ \E a \in {"absent", "running", "exited", "unlabelled"}, b \in {"absent", "running"} :
          /\ a # "absent" => images # <<>>
          /\ containers =
                [n \in ContainerNames |->
                    IF n = getContainerName(PA) /\ a \in {"running", "exited"}
                    THEN Container(1, a, PA, O3)
                    ELSE IF n = getContainerName(PA) /\ a = "unlabelled"
                    THEN [Container(1, "running", PA, O3) EXCEPT !.buildId = NoId]
                    ELSE IF n = getContainerName(PB) /\ b = "running"
                    THEN Container(2, "running", PB, O1)
                    ELSE NoContainer]
    /\ logStreamers = [p \in ProjectIds |-> 0]
    /\ streams = {}
    /\ calls = [c \in Callers |-> Idle]
    /\ begun = 0
    /\ last = "none"
    /\ health = NoHealth
    /\ build = NoBuild
    /\ applied = NoApplied
    /\ bridge = NoBridge

---------------------------------------------------------------------------
(* DockerService.deploy                                                    *)

DeployBegin(c, p, b) ==
    /\ NoDone
    /\ begun < MaxCalls
    /\ begun' = begun + 1
    /\ calls[c].op = "idle"
    /\ calls' = [calls EXCEPT ![c] = Enter("deploy", p, b, "td_inspect")]
    /\ UNCHANGED <<containers, images, logStreamers, streams, last, health, build, applied, bridge>>

\* where a call goes on once ensureContainerStopped has resolved
AfterEnsure(c, what) ==
    IF calls[c].op = "deploy" THEN [calls[c] EXCEPT !.pc = "build", !.trace = Log(c, what)]
    ELSE IF calls[c].todo # <<>>
    THEN [calls[c] EXCEPT !.pc = "c_rmi", !.trace = Log(c, what)]
    ELSE Return(c, "void", "none", what)

\* ensureContainerStopped, first await: containerExists
EnsureInspect(c) ==
    /\ NoDone
    /\ calls[c].pc = "td_inspect"
    /\ calls' = [calls EXCEPT ![c] =
          IF containerExists(containers, Name(c))
          THEN [@ EXCEPT !.pc = "td_stop", !.trace = Log(c, "inspect")]
          ELSE AfterEnsure(c, "inspect")]
    /\ UNCHANGED <<containers, images, logStreamers, streams, begun, last, health, build, applied, bridge>>

\* stopAndRemoveContainer, first await: stopContainer
StopStep(c, from, to) ==
    /\ NoDone
    /\ calls[c].pc = from
    /\ containers' = stopContainer(containers, Name(c))
    /\ calls' = [calls EXCEPT ![c] = [@ EXCEPT !.pc = to, !.trace = Log(c, "stop")]]
    /\ UNCHANGED <<images, logStreamers, streams, begun, last, health, build, applied, bridge>>

\* variant: the teardown stops the container and leaves it in place
EnsureRemove_Keeps(c) ==
    /\ NoDone
    /\ calls[c].pc = "td_rm"
    /\ calls' = [calls EXCEPT ![c] = AfterEnsure(c, "rm")]
    /\ UNCHANGED <<containers, images, logStreamers, streams, begun, last, health, build, applied, bridge>>

\* ensureContainerStopped, the removal that ends it
EnsureRemove(c) ==
    /\ NoDone
    /\ calls[c].pc = "td_rm"
    /\ containers' = removeContainer(containers, Name(c))
    /\ calls' = [calls EXCEPT ![c] = AfterEnsure(c, "rm")]
    /\ UNCHANGED <<images, logStreamers, streams, begun, last, health, build, applied, bridge>>

\* variant: a failed build is tried again
DeployBuild_Retry(c) ==
    /\ NoDone
    /\ calls[c].pc = "build"
    /\ \E ok \in BOOLEAN, cached \in BOOLEAN :
          /\ images' = buildImage(images, calls[c].p, calls[c].b, ok, cached)
          /\ calls' = [calls EXCEPT ![c] =
                [@ EXCEPT !.pc = IF ok THEN "run" ELSE "build", !.trace = Log(c, "build"),
                          !.built = IF ok THEN "ok" ELSE "Docker build failed"]]
    /\ UNCHANGED <<containers, logStreamers, streams, begun, last, health, build, applied, bridge>>

\* the error texts a failed buildImage returns
BuildErrors == {"Source directory not found", "Docker build failed", "stderr of the build"}

\* variant: the build's failure is reported but the deploy goes on
DeployBuild_GoesOn(c) ==
    /\ NoDone
    /\ calls[c].pc = "build"
    /\ \E ok \in BOOLEAN, cached \in BOOLEAN, e \in BuildErrors :
          /\ images' = buildImage(images, calls[c].p, calls[c].b, ok, cached)
          /\ calls' = [calls EXCEPT ![c] =
                [@ EXCEPT !.pc = "run", !.trace = Log(c, "build"),
                          !.built = IF ok THEN "ok" ELSE e]]
    /\ UNCHANGED <<containers, logStreamers, streams, begun, last, health, build, applied, bridge>>

\* step 2: buildImage; a failed build ends the call with the build's error
DeployBuild(c) ==
    /\ NoDone
    /\ calls[c].pc = "build"
    /\ \E ok \in BOOLEAN, cached \in BOOLEAN, e \in BuildErrors :
          /\ images' = buildImage(images, calls[c].p, calls[c].b, ok, cached)
          /\ calls' = [calls EXCEPT ![c] =
                IF ok THEN [@ EXCEPT !.pc = "run", !.built = "ok", !.trace = Log(c, "build")]
                ELSE [Return(c, "failure", e, "build") EXCEPT !.built = e]]
    /\ UNCHANGED <<containers, logStreamers, streams, begun, last, health, build, applied, bridge>>

\* variant: `docker run` succeeds although the name is taken, replacing the
\* container that bears it
RunOutcomes_NoConflict(cs, imgs, name, image) ==
    IF image \notin Range(imgs)
    THEN {"error"}
    ELSE {"started", "created", "error"}

\* what `docker run -d --name NAME ... IMAGE` can do: with the name taken or
\* the image missing it fails and creates nothing; otherwise it starts the
\* container, or creates it and fails to start it (host port already
\* allocated), or fails before creating it
RunOutcomes(cs, imgs, name, image) ==
    IF cs[name].status # "absent" \/ image \notin Range(imgs)
    THEN {"error"}
    ELSE {"started", "created", "error"}

\* the containers after `docker run`
runContainer(cs, name, id, projectId, buildId, o) ==
    IF o = "started" THEN [cs EXCEPT ![name] = Container(id, "running", projectId, buildId)]
    ELSE IF o = "created"
    THEN [cs EXCEPT ![name] = Container(id, "created", projectId, buildId)]
    ELSE cs

\* step 3: runContainer; a non-zero exit ends the call
DeployRun(c) ==
    /\ NoDone
    /\ calls[c].pc = "run"
    /\ LET me    == calls[c]
           image == getImageName(me.p, me.b)
           id    == FreshIn(UsedIds)
       IN  \E o \in RunOutcomes(containers, images, Name(c), image) :
              /\ containers' = runContainer(containers, Name(c), id, me.p, me.b, o)
              /\ calls' = [calls EXCEPT ![c] =
                    IF o = "started"
                    THEN [@ EXCEPT !.pc = "health", !.cid = id, !.made = id,
                                   !.trace = Log(c, "run")]
                    ELSE [Return(c, "failure", "run", "run") EXCEPT
                             !.made = IF o = "created" THEN id ELSE 0]]
    /\ UNCHANGED <<images, logStreamers, streams, begun, last, health, build, applied, bridge>>

\* variant: the result of the health check is not looked at
DeployHealth_Unchecked(c) ==
    /\ NoDone
    /\ calls[c].pc = "health"
    /\ \E h \in BOOLEAN :
          /\ h => containers[Name(c)].status = "running"
          /\ calls' = [calls EXCEPT ![c] =
                [@ EXCEPT !.healthy = h, !.pc = "prune", !.trace = Log(c, "health")]]
    /\ UNCHANGED <<containers, images, logStreamers, streams, begun, last, health, build, applied, bridge>>

\* step 4: waitForHealthy(hostPort, 15000); only the project's running
\* container answers on the host port
DeployHealth(c) ==
    /\ NoDone
    /\ calls[c].pc = "health"
    /\ \E h \in BOOLEAN :
          /\ h => containers[Name(c)].status = "running"
          /\ calls' = [calls EXCEPT ![c] =
                [@ EXCEPT !.healthy = h, !.pc = IF h THEN "prune" ELSE "h_logs",
                          !.trace = Log(c, "health")]]
    /\ UNCHANGED <<containers, images, logStreamers, streams, begun, last, health, build, applied, bridge>>

\* health check failed: getContainerLogs(containerName, 50)
DeployFailLogs(c) ==
    /\ NoDone
    /\ calls[c].pc = "h_logs"
    /\ calls' = [calls EXCEPT ![c] =
          [@ EXCEPT !.pc = "h_stop", !.logsOf = getContainerInfo(containers, Name(c)).id,
                    !.tail = LogTail, !.trace = Log(c, "logs")]]
    /\ UNCHANGED <<containers, images, logStreamers, streams, begun, last, health, build, applied, bridge>>

\* variant: the failure is returned with the container stopped but not removed
DeployFailRemove_Keep(c) ==
    /\ NoDone
    /\ calls[c].pc = "h_rm"
    /\ calls' = [calls EXCEPT ![c] = Return(c, "failure", "Health check failed", "rm")]
    /\ UNCHANGED <<containers, images, logStreamers, streams, begun, last, health, build, applied, bridge>>

\* health check failed: the removal that ends stopAndRemoveContainer, and the
\* return of the failure
DeployFailRemove(c) ==
    /\ NoDone
    /\ calls[c].pc = "h_rm"
    /\ containers' = removeContainer(containers, Name(c))
    /\ calls' = [calls EXCEPT ![c] = Return(c, "failure", "Health check failed", "rm")]
    /\ UNCHANGED <<images, logStreamers, streams, begun, last, health, build, applied, bridge>>

\* step 5: pruneProjectImages(projectId, 3), the listing
DeployPruneList(c) ==
    /\ NoDone
    /\ calls[c].pc = "prune"
    /\ LET old == toRemove(images, calls[c].p, KeepCount)
       IN  calls' = [calls EXCEPT ![c] =
              [@ EXCEPT !.todo = old, !.pc = IF old = <<>> THEN "attach" ELSE "prune_rm",
                        !.keep = KeepCount, !.listed = images,
                        !.trace = Log(c, "images")]]
    /\ UNCHANGED <<containers, images, logStreamers, streams, begun, last, health, build, applied, bridge>>

RmiLog(image) == IF removeImageOk(containers, images, image) THEN "rmi" ELSE "rmi failed"

\* step 5: pruneProjectImages, one removeImage of its loop
DeployPruneRemove(c) ==
    /\ NoDone
    /\ calls[c].pc = "prune_rm"
    /\ images' = removeImage(containers, images, Head(calls[c].todo))
    /\ calls' = [calls EXCEPT ![c] =
          [@ EXCEPT !.todo = Tail(@), !.pc = IF Tail(calls[c].todo) = <<>> THEN "attach" ELSE @,
                    !.trace = Log(c, RmiLog(Head(calls[c].todo)))]]
    /\ UNCHANGED <<containers, logStreamers, streams, begun, last, health, build, applied, bridge>>

\* step 6: startLogStreaming, and the return of the success
DeployAttach(c) ==
    /\ NoDone
    /\ calls[c].pc = "attach"
    /\ LET s == startLogStreaming(logStreamers, streams, calls[c].p, calls[c].b)
       IN  /\ logStreamers' = s.reg
           /\ streams' = s.strs
    /\ calls' = [calls EXCEPT ![c] =
          [Return(c, "success", "none", "attach") EXCEPT !.prev = logStreamers[calls[c].p]]]
    /\ UNCHANGED <<containers, images, begun, last, health, build, applied, bridge>>

---------------------------------------------------------------------------
(* DockerService.stop                                                      *)

\* variant: stop leaves the log stream alone
StopBegin_NoCancel(c, p, b) ==
    /\ NoDone
    /\ begun < MaxCalls
    /\ begun' = begun + 1
    /\ calls[c].op = "idle"
    /\ calls' = [calls EXCEPT ![c] = Enter("stop", p, b, "s_stop")]
    /\ UNCHANGED <<containers, images, logStreamers, streams, last, health, build, applied, bridge>>

StopBegin(c, p, b) ==
    /\ NoDone
    /\ begun < MaxCalls
    /\ begun' = begun + 1
    /\ calls[c].op = "idle"
    /\ LET s == stopLogStreaming(logStreamers, streams, p)
       IN  /\ logStreamers' = s.reg
           /\ streams' = s.strs
    /\ calls' = [calls EXCEPT ![c] =
          [Enter("stop", p, b, "s_stop") EXCEPT !.trace = <<"cancel">>]]
    /\ UNCHANGED <<containers, images, last, health, build, applied, bridge>>

\* the removal that ends stopAndRemoveContainer, whose result stop returns
StopRemove(c) ==
    /\ NoDone
    /\ calls[c].pc = "s_rm"
    /\ containers' = removeContainer(containers, Name(c))
    /\ calls' = [calls EXCEPT ![c] =
          Return(c, IF removeExit(containers, Name(c)) = 0 THEN "true" ELSE "false",
                 "none", "rm")]
    /\ UNCHANGED <<images, logStreamers, streams, begun, last, health, build, applied, bridge>>

---------------------------------------------------------------------------
(* DockerService.cleanup                                                   *)

CleanupLists == {<<>>, <<B1>>, <<B2, B1>>}

CleanupBegin(c, p, buildIds) ==
    /\ NoDone
    /\ begun < MaxCalls
    /\ begun' = begun + 1
    /\ calls[c].op = "idle"
    /\ LET s == stopLogStreaming(logStreamers, streams, p)
       IN  /\ logStreamers' = s.reg
           /\ streams' = s.strs
    /\ calls' = [calls EXCEPT ![c] =
          [Enter("cleanup", p, NoId, "td_inspect") EXCEPT
              !.ids = buildIds, !.todo = buildIds, !.trace = <<"cancel">>]]
    /\ UNCHANGED <<containers, images, last, health, build, applied, bridge>>

\* variant: the loop ends at the first removal that fails
CleanupRemoveImage_Abort(c) ==
    /\ NoDone
    /\ calls[c].pc = "c_rmi"
    /\ LET image == getImageName(calls[c].p, Head(calls[c].todo))
       IN  /\ images' = removeImage(containers, images, image)
           /\ calls' = [calls EXCEPT ![c] =
                 IF Tail(@.todo) = <<>> \/ ~removeImageOk(containers, images, image)
                 THEN [Return(c, "void", "none", RmiLog(image)) EXCEPT !.todo = <<>>]
                 ELSE [@ EXCEPT !.todo = Tail(@), !.trace = Log(c, RmiLog(image))]]
    /\ UNCHANGED <<containers, logStreamers, streams, begun, last, health, build, applied, bridge>>

\* one removeImage of the loop over buildIds
CleanupRemoveImage(c) ==
    /\ NoDone
    /\ calls[c].pc = "c_rmi"
    /\ LET image == getImageName(calls[c].p, Head(calls[c].todo))
       IN  /\ images' = removeImage(containers, images, image)
           /\ calls' = [calls EXCEPT ![c] =
                 IF Tail(@.todo) = <<>>
                 THEN [Return(c, "void", "none", RmiLog(image)) EXCEPT !.todo = <<>>]
                 ELSE [@ EXCEPT !.todo = Tail(@), !.trace = Log(c, RmiLog(image))]]
    /\ UNCHANGED <<containers, logStreamers, streams, begun, last, health, build, applied, bridge>>

---------------------------------------------------------------------------
(* DockerService.recoverLogStreams                                         *)

RecoverBegin(c) ==
    /\ NoDone
    /\ begun < MaxCalls
    /\ begun' = begun + 1
    /\ calls[c].op = "idle"
    /\ calls' = [calls EXCEPT ![c] = [Idle EXCEPT !.op = "recover", !.pc = "r_list"]]
    /\ UNCHANGED <<containers, images, logStreamers, streams, last, health, build, applied, bridge>>

\* the listing awaited by recoverLogStreams
RecoverList(c) ==
    /\ NoDone
    /\ calls[c].pc = "r_list"
    /\ calls' = [calls EXCEPT ![c] =
          [@ EXCEPT !.list = listRunningContainers(containers), !.pc = "r_attach",
                    !.trace = Log(c, "ps")]]
    /\ UNCHANGED <<containers, images, logStreamers, streams, begun, last, health, build, applied, bridge>>

\* the loop of startLogStreaming calls, and the return
RecoverAttach(c) ==
    /\ NoDone
    /\ calls[c].pc = "r_attach"
    /\ LET s == attachAll(logStreamers, streams, calls[c].list)
       IN  /\ logStreamers' = s.reg
           /\ streams' = s.strs
    /\ calls' = [calls EXCEPT ![c] =
          [Return(c, "void", "none", "attach") EXCEPT !.prev = logStreamers[PA]]]
    /\ UNCHANGED <<containers, images, begun, last, health, build, applied, bridge>>

---------------------------------------------------------------------------
(* The caller takes the outcome of a finished call.                        *)

Retire(c) ==
    /\ calls[c].pc = "done"
    /\ calls' = [calls EXCEPT ![c] = Idle]
    /\ last' = calls[c].op
    /\ UNCHANGED <<containers, images, logStreamers, streams, begun, health, build, applied, bridge>>

---------------------------------------------------------------------------
(* Specifications.  Spec lets the calls of two callers overlap freely;     *)
(* SpecSeq is the use the service asks of its callers: no call begins      *)
(* while another one is in flight.                                         *)

Projects == {PA}

StopBuilds == {NoId, B1}

Steps(c) ==
    \/ EnsureInspect(c)
    \/ StopStep(c, "td_stop", "td_rm")
    \/ EnsureRemove(c)
    \/ DeployBuild(c)
    \/ DeployRun(c)
    \/ DeployHealth(c)
    \/ DeployFailLogs(c)
    \/ StopStep(c, "h_stop", "h_rm")
    \/ DeployFailRemove(c)
    \/ DeployPruneList(c)
    \/ DeployPruneRemove(c)
    \/ DeployAttach(c)
    \/ StopStep(c, "s_stop", "s_rm")
    \/ StopRemove(c)
    \/ CleanupRemoveImage(c)
    \/ RecoverList(c)
    \/ RecoverAttach(c)
    \/ Retire(c)

MaxRacing == 2

Next ==
    \E c \in Callers :
        \/ begun < MaxRacing /\ \E p \in Projects, b \in BuildIds : DeployBegin(c, p, b)
        \/ begun < MaxRacing /\ \E p \in Projects : StopBegin(c, p, NoId)
        \/ begun < MaxRacing /\ \E p \in Projects, ids \in CleanupLists : CleanupBegin(c, p, ids)
        \/ begun < MaxRacing /\ RecoverBegin(c)
        \/ Steps(c)

Spec == Init /\ [][Next]_vars

SeqCalls(c) ==
    \/ AllIdle /\ \E p \in Projects, b \in BuildIds : DeployBegin(c, p, b)
    \/ AllIdle /\ \E p \in Projects, b \in StopBuilds : StopBegin(c, p, b)
    \/ AllIdle /\ \E p \in Projects, ids \in CleanupLists : CleanupBegin(c, p, ids)
    \/ AllIdle /\ RecoverBegin(c)

NextSeq == \E c \in Callers : SeqCalls(c) \/ Steps(c)

SpecSeq == Init /\ [][NextSeq]_vars

\* the sequential use, started on what InitRecover describes
SpecRecover == InitRecover /\ [][NextSeq]_vars

---------------------------------------------------------------------------
(* Failures of the collaborators.  LogService.stream, the log sink every   *)
(* message is awaited on, may reject; a runtime command may fail without   *)
(* effect (daemon unreachable); writing the recipe file may fail.          *)
(* SpecFault adds these to the sequential use.                             *)

\* how an awaited LogService.stream(buildId, message, level) can end
SinkResults == {"resolved", "rejected"}

\* `await LogService.stream(...)` rejects inside deploy's try block, before
\* the next runtime operation is issued
SinkPoints == {"td_inspect", "build", "run", "health", "h_stop", "prune"}

DeploySinkRejects(c) ==
    /\ NoDone
    /\ calls[c].op = "deploy"
    /\ calls[c].pc \in SinkPoints
    /\ "rejected" \in SinkResults
    /\ calls' = [calls EXCEPT ![c] = [@ EXCEPT !.pc = "catch", !.trace = Log(c, "throw")]]
    /\ UNCHANGED <<containers, images, logStreamers, streams, begun, last, health, build, applied, bridge>>

\* writeFile of the recipe rejects inside buildImage
BuildWriteFails(c) ==
    /\ NoDone
    /\ calls[c].pc = "build"
    /\ calls' = [calls EXCEPT ![c] =
          [@ EXCEPT !.pc = "catch", !.trace = Log(c, "write") \o <<"throw">>]]
    /\ UNCHANGED <<containers, images, logStreamers, streams, begun, last, health, build, applied, bridge>>

\* the build fails and the sink rejects the message that reports it
BuildFailsSinkRejects(c) ==
    /\ NoDone
    /\ calls[c].pc = "build"
    /\ calls' = [calls EXCEPT ![c] =
          [@ EXCEPT !.pc = "catch", !.trace = Log(c, "build") \o <<"throw">>]]
    /\ UNCHANGED <<containers, images, logStreamers, streams, begun, last, health, build, applied, bridge>>

\* run fails and the sink rejects the message that reports it
RunFailsSinkRejects(c) ==
    /\ NoDone
    /\ calls[c].pc = "run"
    /\ LET me    == calls[c]
           image == getImageName(me.p, me.b)
           id    == FreshIn(UsedIds)
       IN  \E o \in RunOutcomes(containers, images, Name(c), image) \ {"started"} :
              /\ containers' = runContainer(containers, Name(c), id, me.p, me.b, o)
              /\ calls' = [calls EXCEPT ![c] =
                    [@ EXCEPT !.pc = "catch", !.made = IF o = "created" THEN id ELSE 0,
                              !.trace = Log(c, "run") \o <<"throw">>]]
    /\ UNCHANGED <<images, logStreamers, streams, begun, last, health, build, applied, bridge>>

\* deploy's catch block: the error is reported to the sink and then returned;
\* nothing catches a rejection of that report
DeployCatch(c) ==
    /\ NoDone
    /\ calls[c].pc = "catch"
    /\ \E r \in SinkResults :
          calls' = [calls EXCEPT ![c] =
             IF r = "resolved" THEN Return(c, "failure", "exception", "catch")
             ELSE Return(c, "rejected", "exception", "throw")]
    /\ UNCHANGED <<containers, images, logStreamers, streams, begun, last, health, build, applied, bridge>>

\* stop(projectId, buildId): the sink rejects 'Stopping container...'
StopSinkRejects(c) ==
    /\ NoDone
    /\ calls[c].pc = "s_stop"
    /\ calls[c].b # NoId
    /\ calls' = [calls EXCEPT ![c] = Return(c, "rejected", "exception", "throw")]
    /\ UNCHANGED <<containers, images, logStreamers, streams, begun, last, health, build, applied, bridge>>

\* variant: a removal that fails ends the loop of pruneProjectImages
CommandFails_PruneAborts(c) ==
    /\ NoDone
    /\ calls[c].pc \in {"td_inspect", "td_stop", "td_rm", "h_stop", "h_rm", "s_stop", "s_rm",
                        "prune", "prune_rm", "c_rmi"}
    /\ calls' = [calls EXCEPT ![c] =
          CASE @.pc = "td_inspect" -> AfterEnsure(c, "inspect failed")
            [] @.pc = "td_stop"    -> [@ EXCEPT !.pc = "td_rm", !.trace = Log(c, "stop failed")]
            [] @.pc = "td_rm"      -> AfterEnsure(c, "rm failed")
            [] @.pc = "h_stop"     -> [@ EXCEPT !.pc = "h_rm", !.trace = Log(c, "stop failed")]
            [] @.pc = "h_rm"       -> Return(c, "failure", "Health check failed", "rm failed")
            [] @.pc = "s_stop"     -> [@ EXCEPT !.pc = "s_rm", !.trace = Log(c, "stop failed")]
            [] @.pc = "s_rm"       -> Return(c, "false", "none", "rm failed")
            [] @.pc = "prune"      -> [@ EXCEPT !.pc = "attach", !.trace = Log(c, "images failed")]
            [] @.pc = "prune_rm"   ->
                  [@ EXCEPT !.todo = <<>>, !.pc = "attach", !.trace = Log(c, "rmi failed")]
            [] @.pc = "c_rmi"      ->
                  IF Tail(@.todo) = <<>>
                  THEN [Return(c, "void", "none", "rmi failed") EXCEPT !.todo = <<>>]
                  ELSE [@ EXCEPT !.todo = Tail(@), !.trace = Log(c, "rmi failed")]]
    /\ UNCHANGED <<containers, images, logStreamers, streams, begun, last, health, build, applied, bridge>>

\* a runtime command exits non-zero without effect; the call goes on as its
\* code does with that result
CommandFails(c) ==
    /\ NoDone
    /\ calls[c].pc \in {"td_inspect", "td_stop", "td_rm", "h_stop", "h_rm", "s_stop", "s_rm",
                        "prune", "prune_rm", "c_rmi"}
    /\ calls' = [calls EXCEPT ![c] =
          CASE @.pc = "td_inspect" -> AfterEnsure(c, "inspect failed")
            [] @.pc = "td_stop"    -> [@ EXCEPT !.pc = "td_rm", !.trace = Log(c, "stop failed")]
            [] @.pc = "td_rm"      -> AfterEnsure(c, "rm failed")
            [] @.pc = "h_stop"     -> [@ EXCEPT !.pc = "h_rm", !.trace = Log(c, "stop failed")]
            [] @.pc = "h_rm"       -> Return(c, "failure", "Health check failed", "rm failed")
            [] @.pc = "s_stop"     -> [@ EXCEPT !.pc = "s_rm", !.trace = Log(c, "stop failed")]
            [] @.pc = "s_rm"       -> Return(c, "false", "none", "rm failed")
            [] @.pc = "prune"      -> [@ EXCEPT !.pc = "attach", !.trace = Log(c, "images failed")]
            [] @.pc = "prune_rm"   ->
                  [@ EXCEPT !.todo = Tail(@),
                            !.pc = IF Tail(calls[c].todo) = <<>> THEN "attach" ELSE @,
                            !.trace = Log(c, "rmi failed")]
            [] @.pc = "c_rmi"      ->
                  IF Tail(@.todo) = <<>>
                  THEN [Return(c, "void", "none", "rmi failed") EXCEPT !.todo = <<>>]
                  ELSE [@ EXCEPT !.todo = Tail(@), !.trace = Log(c, "rmi failed")]]
    /\ UNCHANGED <<containers, images, logStreamers, streams, begun, last, health, build, applied, bridge>>

Faults(c) ==
    \/ DeploySinkRejects(c)
    \/ BuildWriteFails(c)
    \/ BuildFailsSinkRejects(c)
    \/ RunFailsSinkRejects(c)
    \/ DeployCatch(c)
    \/ StopSinkRejects(c)
    \/ CommandFails(c)

NextFault == \E c \in Callers : SeqCalls(c) \/ Steps(c) \/ Faults(c)

SpecFault == Init /\ [][NextFault]_vars

---------------------------------------------------------------------------
(* pruneProjectImages(projectId, keepCount) called on its own, next to the *)
(* deploys that call it with keepCount 3, over image stores that hold more *)
(* than the deploys of one process leave behind.                           *)

KeepCounts == 0..KeepCount

PruneBegin(c, p, keepCount) ==
    /\ NoDone
    /\ begun < MaxCalls
    /\ begun' = begun + 1
    /\ calls[c].op = "idle"
    /\ calls' = [calls EXCEPT ![c] = [Enter("prune", p, NoId, "list") EXCEPT !.keep = keepCount]]
    /\ UNCHANGED <<containers, images, logStreamers, streams, last, health, build, applied, bridge>>

\* `docker images --filter reference=PREFIX:*`, the sort and the slice; an
\* empty listing returns at once
PruneList(c) ==
    /\ NoDone
    /\ calls[c].pc = "list"
    /\ LET old == toRemove(images, calls[c].p, calls[c].keep)
       IN  calls' = [calls EXCEPT ![c] =
              IF old = <<>>
              THEN [Return(c, "void", "none", "images") EXCEPT !.listed = images]
              ELSE [@ EXCEPT !.todo = old, !.pc = "list_rm", !.listed = images,
                             !.trace = Log(c, "images")]]
    /\ UNCHANGED <<containers, images, logStreamers, streams, begun, last, health, build, applied, bridge>>

\* one removeImage of the loop
PruneRemove(c) ==
    /\ NoDone
    /\ calls[c].pc = "list_rm"
    /\ images' = removeImage(containers, images, Head(calls[c].todo))
    /\ calls' = [calls EXCEPT ![c] =
          IF Tail(calls[c].todo) = <<>>
          THEN [Return(c, "void", "none", RmiLog(Head(calls[c].todo))) EXCEPT !.todo = <<>>]
          ELSE [@ EXCEPT !.todo = Tail(@), !.trace = Log(c, RmiLog(Head(calls[c].todo)))]]
    /\ UNCHANGED <<containers, logStreamers, streams, begun, last, health, build, applied, bridge>>

\* image stores: five images of one project; the same with the image of the
\* project's container as the oldest; the same with the image of a build
\* that is deployed again as the oldest (the builds after it failed their
\* health checks, which leaves their images); the images of two projects mixed
Five == Legacy \o <<getImageName(PA, B1), getImageName(PA, B2)>>

FiveUsedOldest ==
    <<getImageName(PA, O3), getImageName(PA, O1), getImageName(PA, O2),
      getImageName(PA, B1), getImageName(PA, B2)>>

FiveOldestRebuilt ==
    <<getImageName(PA, B1), getImageName(PA, O1), getImageName(PA, O2),
      getImageName(PA, O3), getImageName(PA, B2)>>

Mixed ==
    <<getImageName(PB, O1), getImageName(PA, O1), getImageName(PA, O2),
      getImageName(PB, O2), getImageName(PA, O3), getImageName(PB, O3),
      getImageName(PA, B1), getImageName(PB, B1)>>

ImageStores == {<<>>, Legacy, Five, FiveUsedOldest, FiveOldestRebuilt, Mixed}

InitPrune ==
    /\ images \in ImageStores
    /\ \E st \in {"absent", "running", "exited"} :
          /\ st # "absent" => images # <<>>
          /\ containers =
                [n \in ContainerNames |->
                    IF n = getContainerName(PA) /\ st # "absent"
                    THEN Container(1, st, PA, O3) ELSE NoContainer]
    /\ logStreamers = [p \in ProjectIds |-> 0]
    /\ streams = {}
    /\ calls = [c \in Callers |-> Idle]
    /\ begun = 0
    /\ last = "none"
    /\ health = NoHealth
    /\ build = NoBuild
    /\ applied = NoApplied
    /\ bridge = NoBridge

DeploySteps(c) ==
    \/ EnsureInspect(c)
    \/ StopStep(c, "td_stop", "td_rm")
    \/ EnsureRemove(c)
    \/ DeployBuild(c)
    \/ DeployRun(c)
    \/ DeployHealth(c)
    \/ DeployFailLogs(c)
    \/ StopStep(c, "h_stop", "h_rm")
    \/ DeployFailRemove(c)
    \/ DeployPruneList(c)
    \/ DeployPruneRemove(c)
    \/ DeployAttach(c)
    \/ Retire(c)

NextPrune ==
    \E c \in Callers :
        \/ AllIdle /\ \E p \in Projects, b \in BuildIds : DeployBegin(c, p, b)
        \/ AllIdle /\ \E p \in ProjectIds, k \in KeepCounts : PruneBegin(c, p, k)
        \/ DeploySteps(c)
        \/ PruneList(c)
        \/ PruneRemove(c)

SpecPrune == InitPrune /\ [][NextPrune]_vars

---------------------------------------------------------------------------
(* Two projects: deploy, stop and cleanup calls for the first overlapping  *)
(* each other and deploys of the second, started with nothing deployed or  *)
(* with both deployed (for the second: container running, log handle       *)
(* registered).                                                            *)

TwoBuilds == {B1}

TwoLists == {<<O1, B1>>}

InitTwo ==
    /\ images = Mixed
    /\ \E b \in BOOLEAN :
          /\ containers =
                [n \in ContainerNames |->
                    IF n = getContainerName(PA) /\ b
                    THEN Container(1, "running", PA, O3)
                    ELSE IF n = getContainerName(PB) /\ b
                    THEN Container(2, "running", PB, O1)
                    ELSE NoContainer]
          /\ logStreamers = [p \in ProjectIds |-> IF p = PB /\ b THEN 1 ELSE 0]
          /\ streams = IF b THEN streamContainerLogs({}, 1, getContainerName(PB), O1, PB)
                            ELSE {}
    /\ calls = [c \in Callers |-> Idle]
    /\ begun = 0
    /\ last = "none"
    /\ health = NoHealth
    /\ build = NoBuild
    /\ applied = NoApplied
    /\ bridge = NoBridge

NextTwo ==
    \E c \in Callers :
        \/ begun < MaxRacing /\ \E p \in ProjectIds, b \in TwoBuilds : DeployBegin(c, p, b)
        \/ begun < MaxRacing /\ \E p \in Projects : StopBegin(c, p, NoId)
        \/ begun < MaxRacing /\ \E p \in Projects, ids \in TwoLists : CleanupBegin(c, p, ids)
        \/ DeploySteps(c)
        \/ StopStep(c, "s_stop", "s_rm")
        \/ StopRemove(c)
        \/ CleanupRemoveImage(c)

SpecTwo == InitTwo /\ [][NextTwo]_vars

---------------------------------------------------------------------------
(* Overlapping deploys of one project, and nothing else.                   *)

NextRace ==
    \E c \in Callers :
        \/ begun < MaxRacing /\ \E p \in Projects, b \in BuildIds : DeployBegin(c, p, b)
        \/ DeploySteps(c)

SpecRace == Init /\ [][NextRace]_vars

---------------------------------------------------------------------------
(* Calls of deploy, stop and cleanup, one at a time.                       *)

NextOps ==
    \E c \in Callers :
        \/ AllIdle /\ \E p \in Projects, b \in BuildIds : DeployBegin(c, p, b)
        \/ AllIdle /\ \E p \in Projects, b \in StopBuilds : StopBegin(c, p, b)
        \/ AllIdle /\ \E p \in Projects, ids \in CleanupLists : CleanupBegin(c, p, ids)
        \/ DeploySteps(c)
        \/ StopStep(c, "s_stop", "s_rm")
        \/ StopRemove(c)
        \/ CleanupRemoveImage(c)

SpecOps == Init /\ [][NextOps]_vars

---------------------------------------------------------------------------
(* DockerService.streamLogs: subscriptions opened by callers of the        *)
(* service, next to the calls of deploy, stop, cleanup and                 *)
(* recoverLogStreams.                                                      *)

\* the owner of the handles streamLogs returns, and the callback it is given
Subscriber == <<"c", "a", "l", "l", "e", "r">>

onLog == <<"o", "n", "L", "o", "g">>

MaxSubscriptions == 2

\* the subscriptions whose handle was not called
Subscriptions == {s \in streams : s.owner = Subscriber}

\* streamLogs(projectId, onLog)
streamLogs(strs, id, projectId) ==
    streamContainerLogs(strs, id, getContainerName(projectId), onLog, Subscriber)

StreamLogsOpen(p) ==
    /\ NoDone
    /\ Cardinality(Subscriptions) < MaxSubscriptions
    /\ streams' = streamLogs(streams,
                             FreshIn({x.id : x \in streams}
                                        \cup {logStreamers[q] : q \in ProjectIds}),
                             p)
    /\ UNCHANGED <<containers, images, logStreamers, calls, begun, last, health, build, applied, bridge>>

\* the caller calls a handle streamLogs returned
StreamLogsCancel ==
    /\ NoDone
    /\ \E s \in Subscriptions : streams' = cancel(streams, s.id)
    /\ UNCHANGED <<containers, images, logStreamers, calls, begun, last, health, build, applied, bridge>>

\* the calls of the service, one at a time
SubscribeCalls(c) ==
    \/ AllIdle /\ \E p \in Projects, b \in TwoBuilds : DeployBegin(c, p, b)
    \/ AllIdle /\ \E p \in Projects : StopBegin(c, p, NoId)
    \/ AllIdle /\ \E p \in Projects, ids \in TwoLists : CleanupBegin(c, p, ids)
    \/ AllIdle /\ RecoverBegin(c)

NextSubscribe ==
    \/ \E c \in Callers : SubscribeCalls(c) \/ Steps(c)
    \/ \E p \in ProjectIds : StreamLogsOpen(p)
    \/ StreamLogsCancel

SpecSubscribe == Init /\ [][NextSubscribe]_vars

---------------------------------------------------------------------------
(* DockerService.waitForHealthy(port, timeoutMs).  Time is in              *)
(* milliseconds; the clock advances while a request or a sleep is awaited. *)

Interval == 500
DeployTimeoutMs == 15000
DefaultTimeoutMs == 10000

\* the timeouts it is called with: by deploy, by default, ad hoc
Timeouts == {DeployTimeoutMs, DefaultTimeoutMs, 1200}

\* what a request can end with: an HTTP status, or 0 when fetch throws
\* (connection refused or reset)
Responses == {0, 200, 404, 499, 500, 503}

\* how long a request that ends can take
Durations == {0, 100, 700}

\* how long a request without answer is followed
MaxWait == 20000

\* variant: only a 2xx response counts
Healthy_OkOnly(res) == 200 <= res /\ res <= 299

\* res.ok || res.status < 500, for a request that got a response
Healthy(res) == res # 0 /\ ((200 <= res /\ res <= 299) \/ res < 500)

Elapsed == health.now - health.start

\* the loop condition, and the request it issues or the false it returns
HealthCheck ==
    /\ health.pc = "check"
    /\ health' =
          IF Elapsed < health.timeoutMs
          THEN [health EXCEPT !.pc = "fetch", !.issued = health.now]
          ELSE [health EXCEPT !.pc = "done", !.result = FALSE]
    /\ UNCHANGED <<service, build, applied, bridge>>

\* the awaited fetch ends: with a response, or by throwing
HealthFetch ==
    /\ health.pc = "fetch"
    /\ \E res \in Responses, d \in Durations :
          health' = [health EXCEPT
             !.now = @ + d, !.ended = health.now + d, !.status = res, !.polled = TRUE,
             !.seenOk = @ \/ (res # 0 /\ res < 500),
             !.unreached = @ /\ res = 0,
             !.pc = IF Healthy(res) THEN "done" ELSE "sleep",
             !.result = Healthy(res)]
    /\ UNCHANGED <<service, build, applied, bridge>>

\* the request is accepted and no answer comes
HealthSilent ==
    /\ health.pc = "fetch"
    /\ health' = [health EXCEPT !.pc = "hung"]
    /\ UNCHANGED <<service, build, applied, bridge>>

\* time passes while the fetch stays pending: no timer of the loop runs
HealthHung ==
    /\ health.pc = "hung"
    /\ Elapsed < MaxWait
    /\ health' = [health EXCEPT !.now = @ + Interval]
    /\ UNCHANGED <<service, build, applied, bridge>>

\* the runtime gives the pending request up, and fetch throws
HealthGiveUp ==
    /\ health.pc = "hung"
    /\ health' = [health EXCEPT
          !.pc = "sleep", !.status = 0, !.polled = TRUE, !.ended = health.now]
    /\ UNCHANGED <<service, build, applied, bridge>>

\* await new Promise((r) => setTimeout(r, interval))
HealthSleep ==
    /\ health.pc = "sleep"
    /\ health' = [health EXCEPT !.pc = "check", !.now = @ + Interval]
    /\ UNCHANGED <<service, build, applied, bridge>>

\* no call of the orchestrator in flight, nothing in the runtime
Quiet ==
    /\ images = <<>>
    /\ containers = [n \in ContainerNames |-> NoContainer]
    /\ logStreamers = [p \in ProjectIds |-> 0]
    /\ streams = {}
    /\ calls = [c \in Callers |-> Idle]
    /\ begun = 0
    /\ last = "none"

InitHealth ==
    /\ Quiet
    /\ build = NoBuild
    /\ applied = NoApplied
    /\ bridge = NoBridge
    /\ \E t \in Timeouts : health = [NoHealth EXCEPT !.pc = "check", !.timeoutMs = t]

NextHealth ==
    \/ HealthCheck
    \/ HealthFetch
    \/ HealthSilent
    \/ HealthHung
    \/ HealthGiveUp
    \/ HealthSleep

SpecHealth == InitHealth /\ [][NextHealth]_vars

---------------------------------------------------------------------------
(* DockerService.deploy with its health check followed poll by poll: the   *)
(* call waits at step 4 while waitForHealthy(hostPort, 15000) runs.        *)

\* step 4, the call: waitForHealthy(hostPort, 15000)
DeployPoll(c) ==
    /\ NoDone
    /\ calls[c].pc = "health"
    /\ health.pc = "idle"
    /\ health' = [NoHealth EXCEPT !.pc = "check", !.timeoutMs = DeployTimeoutMs]
    /\ calls' = [calls EXCEPT ![c] = [@ EXCEPT !.pc = "polling"]]
    /\ UNCHANGED <<containers, images, logStreamers, streams, begun, last, build, applied, bridge>>

\* variant: a failed health check is tried again
DeployPolled_Again(c) ==
    /\ NoDone
    /\ calls[c].pc = "polling"
    /\ health.pc = "done"
    /\ health' = NoHealth
    /\ calls' = [calls EXCEPT ![c] =
          [@ EXCEPT !.healthy = health.result,
                    !.pc = IF health.result THEN "prune" ELSE "health"]]
    /\ UNCHANGED <<containers, images, logStreamers, streams, begun, last, build, applied, bridge>>

\* step 4, the value waitForHealthy has returned
DeployPolled(c) ==
    /\ NoDone
    /\ calls[c].pc = "polling"
    /\ health.pc = "done"
    /\ health' = NoHealth
    /\ calls' = [calls EXCEPT ![c] =
          [@ EXCEPT !.healthy = health.result,
                    !.pc = IF health.result THEN "prune" ELSE "h_logs",
                    !.trace = Log(c, "health")]]
    /\ UNCHANGED <<containers, images, logStreamers, streams, begun, last, build, applied, bridge>>

\* the awaited steps of a deploy, each a runtime command that ends
LiveSteps(c) ==
    \/ EnsureInspect(c)
    \/ StopStep(c, "td_stop", "td_rm")
    \/ EnsureRemove(c)
    \/ DeployBuild(c)
    \/ DeployRun(c)
    \/ DeployPoll(c)
    \/ DeployPolled(c)
    \/ DeployFailLogs(c)
    \/ StopStep(c, "h_stop", "h_rm")
    \/ DeployFailRemove(c)
    \/ DeployPruneList(c)
    \/ DeployPruneRemove(c)
    \/ DeployAttach(c)
    \/ Retire(c)

\* the steps of waitForHealthy, with requests that end: by a response or by
\* throwing
Polling ==
    \/ HealthCheck
    \/ HealthFetch
    \/ HealthSleep

\* the deploy calls that are followed
MaxLive == 1

NextLive ==
    \/ \E c \in Callers :
          \/ /\ AllIdle
             /\ begun < MaxLive
             /\ \E p \in Projects, b \in TwoBuilds : DeployBegin(c, p, b)
          \/ LiveSteps(c)
    \/ Polling

\* every runtime command and every request of the health check ends
SpecLive ==
    /\ Init
    /\ [][NextLive]_vars
    /\ WF_vars(\E c \in Callers : LiveSteps(c))
    /\ WF_vars(Polling)

---------------------------------------------------------------------------
(* Strings, as sequences of characters, with the string functions the      *)
(* image builder uses.                                                     *)

LowerCase ==
    <<"a", "b", "c", "d", "e", "f", "g", "h", "i", "j", "k", "l", "m",
      "n", "o", "p", "q", "r", "s", "t", "u", "v", "w", "x", "y", "z">>
UpperCase ==
    <<"A", "B", "C", "D", "E", "F", "G", "H", "I", "J", "K", "L", "M",
      "N", "O", "P", "Q", "R", "S", "T", "U", "V", "W", "X", "Y", "Z">>
DigitChars == <<"0", "1", "2", "3", "4", "5", "6", "7", "8", "9">>

\* what \s and trim() take for white space, of the characters used here
WhiteSpace == {" ", "\t", "\r"}

IsDigit(ch) == \E i \in DOMAIN DigitChars : DigitChars[i] = ch

UpperChar(ch) ==
    IF \E i \in DOMAIN LowerCase : LowerCase[i] = ch
    THEN UpperCase[CHOOSE i \in DOMAIN LowerCase : LowerCase[i] = ch]
    ELSE ch

\* String.prototype.toUpperCase
toUpperCase(str) == [i \in DOMAIN str |-> UpperChar(str[i])]

\* String.prototype.trim
trim(str) ==
    LET keep == {i \in DOMAIN str : str[i] \notin WhiteSpace}
    IN  IF keep = {} THEN <<>>
        ELSE SubSeq(str, Smallest(keep), CHOOSE i \in keep : \A j \in keep : j <= i)

\* String.prototype.startsWith
startsWith(str, prefix) ==
    Len(str) >= Len(prefix) /\ SubSeq(str, 1, Len(prefix)) = prefix

\* String.prototype.includes
includes(str, part) ==
    \E i \in 1..(Len(str) + 1) :
        i + Len(part) <= Len(str) + 1 /\ SubSeq(str, i, i + Len(part) - 1) = part

\* String.prototype.split('\n')
RECURSIVE split(_)
split(str) ==
    LET breaks == {i \in DOMAIN str : str[i] = "\n"}
    IN  IF breaks = {} THEN <<str>>
        ELSE <<SubSeq(str, 1, Smallest(breaks) - 1)>>
                 \o split(SubSeq(str, Smallest(breaks) + 1, Len(str)))

\* Array.prototype.join('\n')
RECURSIVE join(_)
join(lines) ==
    IF lines = <<>> THEN <<>>
    ELSE IF Len(lines) = 1 THEN lines[1]
    ELSE lines[1] \o <<"\n">> \o join(Tail(lines))

\* a number in a template literal: its decimal digits
RECURSIVE NumStr(_)
NumStr(n) ==
    IF n < 10 THEN <<DigitChars[n + 1]>>
    ELSE NumStr(n \div 10) \o <<DigitChars[(n % 10) + 1]>>

---------------------------------------------------------------------------
(* sanitizeDockerfile(content, internalPort)                               *)

ExposeKeyword == <<"E", "X", "P", "O", "S", "E", " ">>
EnvKeyword == <<"E", "N", "V", " ">>
PortWord == <<"P", "O", "R", "T">>
UserRoot == <<"U", "S", "E", "R", " ", "R", "O", "O", "T">>
Privileged == <<"-", "-", "P", "R", "I", "V", "I", "L", "E", "G", "E", "D">>
DockerSock == <<"D", "O", "C", "K", "E", "R", ".", "S", "O", "C", "K">>
CmdKeyword == <<"C", "M", "D">>
EntrypointKeyword == <<"E", "N", "T", "R", "Y", "P", "O", "I", "N", "T">>
RemovedPrefix ==
    <<"#", " ", "R", "E", "M", "O", "V", "E", "D", " ", "F", "O", "R", " ",
    "S", "E", "C", "U", "R", "I", "T", "Y", ":", " ">>
PortAssign == <<"P", "O", "R", "T", "=">>

\* the first position at or after i that holds no white space
RECURSIVE SkipSpace(_, _)
SkipSpace(str, i) ==
    IF i <= Len(str) /\ str[i] \in WhiteSpace THEN SkipSpace(str, i + 1) ELSE i

\* the first position at or after i that holds no digit
RECURSIVE SkipDigits(_, _)
SkipDigits(str, i) == IF i <= Len(str) /\ IsDigit(str[i]) THEN SkipDigits(str, i + 1) ELSE i

\* /PORT\s*=?\s*\d+/i matched at position i: the position after the match, or
\* 0 when it does not match there
PortMatchEnd(str, i) ==
    IF i + 3 > Len(str) \/ toUpperCase(SubSeq(str, i, i + 3)) # PortWord THEN 0
    ELSE LET a == SkipSpace(str, i + 4)
             b == IF a <= Len(str) /\ str[a] = "=" THEN a + 1 ELSE a
             d == SkipSpace(str, b)
         IN  IF d <= Len(str) /\ IsDigit(str[d]) THEN SkipDigits(str, d) ELSE 0

\* line.replace(/PORT\s*=?\s*\d+/i, `PORT=${internalPort}`): the leftmost match
replacePort(line, internalPort) ==
    LET at == {i \in DOMAIN line : PortMatchEnd(line, i) # 0}
    IN  IF at = {} THEN line
        ELSE LET i == Smallest(at)
             IN  SubSeq(line, 1, i - 1) \o PortAssign \o NumStr(internalPort)
                     \o SubSeq(line, PortMatchEnd(line, i), Len(line))

isExposeLine(line) == startsWith(toUpperCase(trim(line)), ExposeKeyword)

isPortEnvLine(line) ==
    /\ ~isExposeLine(line)
    /\ startsWith(toUpperCase(trim(line)), EnvKeyword)
    /\ includes(toUpperCase(trim(line)), PortWord)

isDangerousLine(line) ==
    LET trimmedLine == toUpperCase(trim(line))
    IN  \/ startsWith(trimmedLine, UserRoot)
        \/ includes(trimmedLine, Privileged)
        \/ includes(trimmedLine, DockerSock)

\* the callback of lines.map
sanitizeLine(line, internalPort) ==
    IF isExposeLine(line) THEN ExposeKeyword \o NumStr(internalPort)
    ELSE IF isPortEnvLine(line) THEN replacePort(line, internalPort)
    ELSE IF isDangerousLine(line) THEN RemovedPrefix \o line
    ELSE line

isEntryLine(line) ==
    \/ startsWith(toUpperCase(trim(line)), CmdKeyword)
    \/ startsWith(toUpperCase(trim(line)), EntrypointKeyword)

\* lines.splice(at, 0, line)
splice(lines, at, line) ==
    SubSeq(lines, 1, at - 1) \o <<line>> \o SubSeq(lines, at, Len(lines))

sanitizeDockerfile(content, internalPort) ==
    LET lines      == split(content)
        hasExpose  == \E i \in DOMAIN lines : isExposeLine(lines[i])
        hasPortEnv == \E i \in DOMAIN lines : isPortEnvLine(lines[i])
        mapped     == [i \in DOMAIN lines |-> sanitizeLine(lines[i], internalPort)]
        exposed    == IF hasExpose THEN mapped
                      ELSE Append(mapped, ExposeKeyword \o NumStr(internalPort))
        entries    == {i \in DOMAIN exposed : isEntryLine(exposed[i])}
        envLine    == EnvKeyword \o PortAssign \o NumStr(internalPort)
        withEnv    == IF hasPortEnv THEN exposed
                      ELSE IF entries # {} THEN splice(exposed, Smallest(entries), envLine)
                      ELSE Append(exposed, envLine)
    IN  join(withEnv)

---------------------------------------------------------------------------
(* buildImage(projectId, buildId, sourceDir, framework, internalPort).     *)
(* `build` holds the source directory (whether it exists, whether it holds *)
(* a recipe file and with what content) and the locals of the run; it also *)
(* records the recipe the user supplied and what sanitizing it gave.       *)

DEFAULT_INTERNAL_PORT == 3000
VITE_INTERNAL_PORT == 80

\* the lines user recipes are made of
RecipeLines ==
    {<<"F", "R", "O", "M", " ", "a">>,
     <<"E", "X", "P", "O", "S", "E", " ", "8", "0", "8", "0">>,
     <<"E", "X", "P", "O", "S", "E", " ", "3", "0", "0", "0">>,
     <<"e", "x", "p", "o", "s", "e", " ", "3", "0", "0", "0">>,
     <<"E", "X", "P", "O", "S", "E", "\t", "8", "0", "8", "0">>,
     <<" ", "E", "X", "P", "O", "S", "E", " ", "3", "0", "0", "0">>,
     <<"E", "N", "V", " ", "P", "O", "R", "T", "=", "3", "0", "0", "0">>,
     <<"E", "N", "V", " ", "P", "O", "R", "T", " ", "3", "0", "0", "0">>,
     <<"E", "N", "V", " ", "P", "O", "R", "T", "=", "8", "0", "8", "0">>,
     <<"E", "N", "V", " ", "S", "U", "P", "P", "O", "R", "T", "=", "1">>,
     <<"E", "N", "V", " ", "A", "=", "1">>,
     <<"U", "S", "E", "R", " ", "r", "o", "o", "t">>,
     <<"U", "S", "E", "R", " ", " ", "r", "o", "o", "t">>,
     <<"E", "N", "V", " ", "P", "O", "R", "T", "=", "1", " ", "S", "=", "d", "o", "c", "k", "e", "r", ".", "s", "o", "c", "k">>,
     <<"R", "U", "N", " ", "x", " ", "-", "-", "p", "r", "i", "v", "i", "l", "e", "g", "e", "d">>,
     <<"C", "M", "D", " ", "b">>,
     <<"E", "N", "T", "R", "Y", "P", "O", "I", "N", "T", " ", "b">>}

MaxLines == 2

\* the recipes of n lines
RECURSIVE RecipesOf(_)
RecipesOf(n) ==
    IF n = 1 THEN RecipeLines
    ELSE {r \o <<"\n">> \o l : r \in RecipesOf(n - 1), l \in RecipeLines}

Recipes == UNION {RecipesOf(n) : n \in 1..MaxLines}

\* the conventional entry files, in the order they are looked for
ENTRY_PATTERNS ==
    <<<<"s", "r", "c", "/", "i", "n", "d", "e", "x", ".", "t", "s">>,
      <<"s", "r", "c", "/", "i", "n", "d", "e", "x", ".", "j", "s">>,
      <<"s", "r", "c", "/", "s", "e", "r", "v", "e", "r", ".", "t", "s">>,
      <<"s", "r", "c", "/", "s", "e", "r", "v", "e", "r", ".", "j", "s">>,
      <<"i", "n", "d", "e", "x", ".", "t", "s">>,
      <<"i", "n", "d", "e", "x", ".", "j", "s">>,
      <<"s", "e", "r", "v", "e", "r", ".", "t", "s">>,
      <<"s", "e", "r", "v", "e", "r", ".", "j", "s">>>>

\* no entry file: the start script is used
NoEntry == <<>>

\* the source trees: the conventional entry files a source directory holds
SourceTrees == SUBSET Range(ENTRY_PATTERNS)

\* package.json of the source directory: absent, not JSON, without a start
\* script (no scripts, no scripts.start, or an empty one), or with one
PackageStates == {"missing", "unparsable", "no start", "start"}

\* variant: the last pattern that exists
detectEntryFile_Last(tree) ==
    LET found == {i \in DOMAIN ENTRY_PATTERNS : ENTRY_PATTERNS[i] \in tree}
    IN  IF found = {} THEN NoEntry
        ELSE ENTRY_PATTERNS[CHOOSE i \in found : \A j \in found : j <= i]

\* the first pattern that exists in the source directory, or null
detectEntryFile(tree) ==
    LET found == {i \in DOMAIN ENTRY_PATTERNS : ENTRY_PATTERNS[i] \in tree}
    IN  IF found = {} THEN NoEntry
        ELSE ENTRY_PATTERNS[CHOOSE i \in found : \A j \in found : i <= j]

\* package.json exists, parses, and its scripts.start is truthy
hasStartScript(pkg) == pkg = "start"

\* the framework a deploy builds with, and the port it passes with it
BuildInputs == {<<"vite", VITE_INTERNAL_PORT>>, <<"nextjs", DEFAULT_INTERNAL_PORT>>,
                <<"express", DEFAULT_INTERNAL_PORT>>}

ViteTemplate ==
    <<<<"F", "R", "O", "M", " ", "n", "g", "i", "n", "x", ":", "a", "l", "p", "i", "n", "e">>,
      <<"C", "O", "P", "Y", " ", "d", "i", "s", "t", "/", " ", "/", "u", "s", "r", "/", "s", "h", "a", "r", "e", "/", "n", "g", "i", "n", "x", "/", "h", "t", "m", "l">>,
      <<"E", "X", "P", "O", "S", "E", " ", "8", "0">>,
      <<"C", "M", "D", " ", "[", "\"", "n", "g", "i", "n", "x", "\"", ",", " ", "\"", "-", "g", "\"", ",", " ", "\"", "d", "a", "e", "m", "o", "n", " ", "o", "f", "f", ";", "\"", "]">>>>

BunTemplate ==
    <<<<"F", "R", "O", "M", " ", "o", "v", "e", "n", "/", "b", "u", "n", ":", "1", "-", "a", "l", "p", "i", "n", "e", " ", "A", "S", " ", "b", "u", "i", "l", "d", "e", "r">>,
      <<"W", "O", "R", "K", "D", "I", "R", " ", "/", "a", "p", "p">>,
      <<"C", "O", "P", "Y", " ", "p", "a", "c", "k", "a", "g", "e", ".", "j", "s", "o", "n", " ", ".", "/">>,
      <<"R", "U", "N", " ", "b", "u", "n", " ", "i", "n", "s", "t", "a", "l", "l">>,
      <<"C", "O", "P", "Y", " ", ".", " ", ".">>,
      <<>>,
      <<"F", "R", "O", "M", " ", "o", "v", "e", "n", "/", "b", "u", "n", ":", "1", "-", "a", "l", "p", "i", "n", "e">>,
      <<"W", "O", "R", "K", "D", "I", "R", " ", "/", "a", "p", "p">>,
      <<"C", "O", "P", "Y", " ", "-", "-", "f", "r", "o", "m", "=", "b", "u", "i", "l", "d", "e", "r", " ", "/", "a", "p", "p", " ", ".">>,
      <<"E", "N", "V", " ", "N", "O", "D", "E", "_", "E", "N", "V", "=", "p", "r", "o", "d", "u", "c", "t", "i", "o", "n">>>>

BunCmd(entryFile) ==
    IF entryFile # NoEntry
    THEN <<"C", "M", "D", " ", "[", "\"", "b", "u", "n", "\"", ",", " ", "\"", "r", "u", "n", "\"", ",", " ", "\"">> \o entryFile \o <<"\"", "]">>
    ELSE <<"C", "M", "D", " ", "[", "\"", "b", "u", "n", "\"", ",", " ", "\"", "r", "u", "n", "\"", ",", " ", "\"", "s", "t", "a", "r", "t", "\"", "]">>

getDockerfileContent(framework, internalPort, entryFile) ==
    IF framework = "vite"
    THEN join(ViteTemplate)
    ELSE join(BunTemplate \o
              <<EnvKeyword \o PortAssign \o NumStr(internalPort),
                ExposeKeyword \o NumStr(internalPort),
                BunCmd(entryFile)>>)

BuildStart(dir, exists, content, in, tree, pkg) ==
    [pc |-> "start", dir |-> dir, exists |-> exists, file |-> content,
     framework |-> in[1], internalPort |-> in[2], tree |-> tree, pkg |-> pkg,
     entryFile |-> NoEntry, dockerfileGenerated |-> FALSE, exitCode |-> 0,
     result |-> "none",
     user |-> exists, supplied |-> content, sanitized |-> <<>>, written |-> FALSE]

\* from the entry to the `docker build`: the early return without source
\* directory, the sanitizing of an existing recipe (written back only when
\* changed), or the writing of a synthesized one
BuildPrepare ==
    /\ build.pc = "start"
    /\ build' =
          IF ~build.dir
          THEN [build EXCEPT !.pc = "done", !.result = "Source directory not found"]
          ELSE IF build.exists
          THEN LET sanitizedContent == sanitizeDockerfile(build.file, build.internalPort)
               IN  [build EXCEPT !.pc = "docker", !.sanitized = sanitizedContent,
                                 !.file = sanitizedContent,
                                 !.written = build.file # sanitizedContent]
          ELSE LET entryFile == IF ~hasStartScript(build.pkg)
                                THEN detectEntryFile(build.tree)
                                ELSE NoEntry
               IN  [build EXCEPT !.pc = "docker", !.exists = TRUE,
                                 !.entryFile = entryFile,
                                 !.file = getDockerfileContent(build.framework,
                                                               build.internalPort,
                                                               entryFile),
                                 !.dockerfileGenerated = TRUE]
    /\ UNCHANGED <<service, health, applied, bridge>>

\* execDockerWithStream(['build', '-t', imageName, sourceDir])
BuildDocker ==
    /\ build.pc = "docker"
    /\ \E code \in {0, 1} : build' = [build EXCEPT !.pc = "cleanup", !.exitCode = code]
    /\ UNCHANGED <<service, health, applied, bridge>>

\* variant: the recipe is removed only after the check of the exit code
BuildCleanup_AfterCheck ==
    /\ build.pc = "cleanup"
    /\ \E e \in {"Docker build failed", "stderr of the build"} :
          build' = [build EXCEPT
             !.pc = "done",
             !.exists = IF build.exitCode # 0 THEN @ ELSE FALSE,
             !.file = IF build.exitCode # 0 THEN @ ELSE <<>>,
             !.result = IF build.exitCode # 0 THEN e ELSE "ok"]
    /\ UNCHANGED <<service, health, applied, bridge>>

\* after the build: the recipe file is unlinked if there is one, and the
\* result returned
BuildCleanup ==
    /\ build.pc = "cleanup"
    /\ \E e \in {"Docker build failed", "stderr of the build"} :
          build' = [build EXCEPT
             !.pc = "done", !.exists = FALSE, !.file = <<>>,
             !.result = IF build.exitCode # 0 THEN e ELSE "ok"]
    /\ UNCHANGED <<service, health, applied, bridge>>

InitBuild ==
    /\ Quiet
    /\ health = NoHealth
    /\ applied = NoApplied
    /\ bridge = NoBridge
    /\ \E in \in BuildInputs :
          \/ build = BuildStart(FALSE, FALSE, <<>>, in, {}, "missing")
          \/ \E tree \in SourceTrees, pkg \in PackageStates :
                build = BuildStart(TRUE, FALSE, <<>>, in, tree, pkg)
          \/ \E r \in Recipes : build = BuildStart(TRUE, TRUE, r, in, {}, "missing")

NextBuild ==
    \/ BuildPrepare
    \/ BuildDocker
    \/ BuildCleanup

SpecBuild == InitBuild /\ [][NextBuild]_vars

---------------------------------------------------------------------------
(* getContainerName and getImageName applied to identifiers of every       *)
(* length up to MaxIdLen: runs of one character with at most one other     *)
(* character at any position, and the identifiers the tests use.           *)

MaxIdLen == 10

TestProjectId == <<"a", "b", "c", "1", "2", "3", "4", "5", "-", "6", "7", "8", "9", "-", "0", "a", "b", "c", "-", "d", "e", "f", "0", "-", "1", "2", "3", "4", "5", "6", "7", "8", "9", "a", "b", "c">>
TestProjectShort == <<"p", "r", "o", "j", "e", "c", "t", "-", "1", "2", "3">>
TestBuildId == <<"b", "u", "i", "l", "d", "-", "4", "5", "6">>

SampleIds ==
    {Rep("a", i) \o tail : i \in 0..MaxIdLen, tail \in {<<>>, <<"b">>}}
        \cup {Rep("a", i) \o <<"b">> \o Rep("a", j) : i \in 0..MaxIdLen, j \in 0..MaxIdLen}

NamingProjects ==
    {x \in SampleIds : Len(x) <= MaxIdLen} \cup {TestProjectId, TestProjectShort}

NamingBuilds == {NoId, B1, Rep("a", NameLen), Rep("a", NameLen) \o <<"b">>, TestBuildId}

InitNaming ==
    /\ Quiet
    /\ health = NoHealth
    /\ build = NoBuild
    /\ bridge = NoBridge
    /\ \E p \in NamingProjects, q \in NamingProjects, b \in NamingBuilds :
          applied = [fn |-> "naming", pc |-> "args", p |-> p, q |-> q, b |-> b,
                     containerName |-> <<>>, otherName |-> <<>>, imageName |-> <<>>]

NamingApply ==
    /\ applied.fn = "naming"
    /\ applied.pc = "args"
    /\ applied' = [applied EXCEPT !.pc = "done",
                                  !.containerName = getContainerName(applied.p),
                                  !.otherName = getContainerName(applied.q),
                                  !.imageName = getImageName(applied.p, applied.b)]
    /\ UNCHANGED <<service, health, build, bridge>>

NextNaming == NamingApply

SpecNaming == InitNaming /\ [][NextNaming]_vars

---------------------------------------------------------------------------
(* What deploy derives from its arguments: the internal port (index.ts 53),*)
(* the recipe buildImage synthesizes for it when the source directory has  *)
(* none, and the argument list runContainer hands to `docker run`.         *)
(* Arguments are character sequences; an environment map is the sequence   *)
(* of its entries in insertion order, as Object.entries gives them.        *)

AppTypes == {"nextjs", "vite", "express", "hono", "elysia"}

\* variant: every application type gets the default port
InternalPortOf_Default(appType) == DEFAULT_INTERNAL_PORT

\* const internalPort = appType === 'vite' ? VITE_INTERNAL_PORT : DEFAULT_INTERNAL_PORT
InternalPortOf(appType) ==
    IF appType = "vite" THEN VITE_INTERNAL_PORT ELSE DEFAULT_INTERNAL_PORT

HostPorts == {8080, 3000}

EnvKeys == {PortWord, <<"A">>}

EnvValues == {<<>>, <<"8", "0", "8", "0">>, <<"3", "0", "0", "0">>}

\* the environment maps of up to two entries
EnvMaps ==
    {<<>>} \cup {<<<<k, v>>>> : k \in EnvKeys, v \in EnvValues}
           \cup {<<<<k, v>>, <<l, w>>>> : k \in EnvKeys, v \in EnvValues,
                                          l \in EnvKeys, w \in EnvValues}

\* an object has one entry per key
OneEntryPerKey(m) == \A i \in DOMAIN m, j \in DOMAIN m : m[i][1] = m[j][1] => i = j

Defines(m, key) == \E i \in DOMAIN m : m[i][1] = key

\* envVars[key] of a key the map defines
ValueOf(m, key) == m[CHOOSE i \in DOMAIN m : m[i][1] = key][2]

\* !envVars['PORT']: the key is missing, or its value is the empty string
Falsy(m, key) == ~Defines(m, key) \/ ValueOf(m, key) = <<>>

DashE == <<"-", "e">>
DashP == <<"-", "p">>

\* Object.entries(envVars).flatMap(([key, value]) => ['-e', `${key}=${value}`])
RECURSIVE EnvFlags(_)
EnvFlags(m) ==
    IF m = <<>> THEN <<>>
    ELSE <<DashE, m[1][1] \o <<"=">> \o m[1][2]>> \o EnvFlags(Tail(m))

DEFAULT_CONTAINER_LIMITS == [memory |-> <<"5", "1", "2", "m">>, cpus |-> <<"0", ".", "5">>]

\* the argument list of runContainer(config)
RunArgs(config) ==
    LET envFlags == EnvFlags(config.envVars) \o
                       (IF Falsy(config.envVars, PortWord)
                        THEN <<DashE, PortAssign \o NumStr(config.internalPort)>>
                        ELSE <<>>)
    IN  <<<<"r", "u", "n">>, <<"-", "d">>, <<"-", "-", "n", "a", "m", "e">>, config.containerName,
          DashP, NumStr(config.hostPort) \o <<":">> \o NumStr(config.internalPort),
          <<"-", "-", "r", "e", "s", "t", "a", "r", "t">>, <<"u", "n", "l", "e", "s", "s", "-", "s", "t", "o", "p", "p", "e", "d">>,
          <<"-", "-", "m", "e", "m", "o", "r", "y">>, DEFAULT_CONTAINER_LIMITS.memory,
          <<"-", "-", "c", "p", "u", "s">>, DEFAULT_CONTAINER_LIMITS.cpus,
          <<"-", "-", "l", "a", "b", "e", "l">>, <<"t", "h", "a", "k", "u", "r", ".", "p", "r", "o", "j", "e", "c", "t", "I", "d", "=">> \o config.projectId,
          <<"-", "-", "l", "a", "b", "e", "l">>, <<"t", "h", "a", "k", "u", "r", ".", "b", "u", "i", "l", "d", "I", "d", "=">> \o config.buildId,
          DashE, <<"N", "O", "D", "E", "_", "E", "N", "V", "=", "p", "r", "o", "d", "u", "c", "t", "i", "o", "n">>>>
        \o envFlags \o <<config.imageName>>

InitDerive ==
    /\ Quiet
    /\ health = NoHealth
    /\ build = NoBuild
    /\ bridge = NoBridge
    /\ \E t \in AppTypes, h \in HostPorts, m \in EnvMaps, e \in Range(ENTRY_PATTERNS) \cup {NoEntry} :
          /\ OneEntryPerKey(m)
          /\ applied = [fn |-> "deploy", pc |-> "port", appType |-> t, hostPort |-> h,
                        envVars |-> m, entryFile |-> e,
                        internalPort |-> 0, buildPort |-> 0, recipe |-> <<>>, args |-> <<>>]

DerivePort ==
    /\ applied.fn = "deploy"
    /\ applied.pc = "port"
    /\ applied' = [applied EXCEPT !.pc = "build", !.internalPort = InternalPortOf(applied.appType)]
    /\ UNCHANGED <<service, health, build, bridge>>

\* buildImage(projectId, buildId, sourceDir, appType, internalPort, onLog) on a
\* source directory without recipe
DeriveRecipe ==
    /\ applied.fn = "deploy"
    /\ applied.pc = "build"
    /\ applied' = [applied EXCEPT
          !.pc = "run",
          !.buildPort = applied.internalPort,
          !.recipe = getDockerfileContent(applied.appType, applied.internalPort,
                                          applied.entryFile)]
    /\ UNCHANGED <<service, health, build, bridge>>

\* runContainer(config) up to the `docker run` it issues
DeriveRun ==
    /\ applied.fn = "deploy"
    /\ applied.pc = "run"
    /\ applied' = [applied EXCEPT
          !.pc = "done",
          !.args = RunArgs([projectId |-> PA, buildId |-> B1,
                            imageName |-> getImageName(PA, B1),
                            containerName |-> getContainerName(PA),
                            hostPort |-> applied.hostPort,
                            internalPort |-> applied.internalPort,
                            envVars |-> applied.envVars])]
    /\ UNCHANGED <<service, health, build, bridge>>

NextDerive ==
    \/ DerivePort
    \/ DeriveRecipe
    \/ DeriveRun

SpecDerive == InitDerive /\ [][NextDerive]_vars

---------------------------------------------------------------------------
(* The runtime bridge: execDocker(args) and execDockerWithStream(args,     *)
(* onOutput).  Each returns a promise and spawns `docker`; the handlers it *)
(* registers run when the child process emits data, 'close' or 'error'.    *)
(* A spawn that fails (binary missing, permission denied) still returns a  *)
(* child object, which emits 'error' and may emit 'close' after it.  An    *)
(* exit code is a one-element sequence, or the empty one for null (the     *)
(* process was ended by a signal).                                         *)

Modes == {"buffered", "stream"}

SpawnResults == {"spawned", "ENOENT", "EACCES"}

SpawnMessage == <<"s", "p", "a", "w", "n", " ", "d", "o", "c", "k", "e", "r", " ">>

\* err.message of a failed spawn
MessageOf(errno) == SpawnMessage \o (IF errno = "ENOENT" THEN <<"E", "N", "O", "E", "N", "T">> ELSE <<"E", "A", "C", "C", "E", "S">>)

\* the chunks a pipe can hand over: whole lines, the head of a line, its tail
StdoutChunks == {<<"a", "b", "c", "1", "2", "3", "\n">>, <<"a", "b">>, <<"c", "\n">>}
StderrChunks == {<<"s", "t", "e", "p", " ", "1", "\n", "s", "t", "e", "p", " ", "2", "\n">>, <<"b", "o", "o", "m">>}

MaxChunks == 3

NoCode == <<>>

\* the codes 'close' carries for a process that ran
ExitCodes == {<<0>>, <<1>>, NoCode}

\* the codes 'close' carries after a failed spawn
FailedCodes == {<<-2>>, NoCode}

\* code ?? 1
OrOne(code) == IF code = NoCode THEN 1 ELSE code[1]

NoResult == [stdout |-> <<>>, stderr |-> <<>>, exitCode |-> 0, error |-> <<>>]

\* resolve(value): the first call settles the promise, later calls do nothing
Resolve(b, value) ==
    IF b.settled = "pending"
    THEN [b EXCEPT !.settled = "resolved", !.result = value, !.resolves = @ + 1]
    ELSE [b EXCEPT !.resolves = @ + 1]

\* data.toString().split('\n').filter(Boolean)
Lines(text) == Filter(split(text), {l \in Range(split(text)) : l # <<>>})

InitBridge ==
    /\ Quiet
    /\ health = NoHealth
    /\ build = NoBuild
    /\ applied = NoApplied
    /\ \E m \in Modes :
          bridge = [pc |-> "spawn", mode |-> m, spawn |-> "none", code |-> NoCode,
                    stdout |-> <<>>, stderr |-> <<>>, lastError |-> <<>>, output |-> <<>>,
                    wrote |-> [out |-> <<>>, err |-> <<>>],
                    got |-> [out |-> <<>>, err |-> <<>>],
                    chunks |-> 0, settled |-> "pending", resolves |-> 0,
                    result |-> NoResult]

\* spawn('docker', args, { shell: false, stdio: ['ignore', 'pipe', 'pipe'] })
BridgeSpawn ==
    /\ bridge.pc = "spawn"
    /\ \E r \in SpawnResults :
          bridge' = [bridge EXCEPT !.spawn = r,
                                   !.pc = IF r = "spawned" THEN "running" ELSE "failed"]
    /\ UNCHANGED <<service, health, build, applied>>

\* proc.stdout.on('data', ...)
BridgeStdout ==
    /\ bridge.pc = "running"
    /\ bridge.chunks < MaxChunks
    /\ \E data \in StdoutChunks :
          bridge' = [bridge EXCEPT
             !.chunks = @ + 1,
             !.stdout = IF bridge.mode = "buffered" THEN @ \o data ELSE @,
             !.wrote.out = @ \o data,
             !.got.out = IF bridge.mode = "stream" THEN @ \o Lines(data) ELSE @,
             !.output = IF bridge.mode = "stream" THEN @ \o Lines(data) ELSE @]
    /\ UNCHANGED <<service, health, build, applied>>

\* proc.stderr.on('data', ...)
BridgeStderr ==
    /\ bridge.pc = "running"
    /\ bridge.chunks < MaxChunks
    /\ \E data \in StderrChunks :
          bridge' = [bridge EXCEPT
             !.chunks = @ + 1,
             !.stderr = IF bridge.mode = "buffered" THEN @ \o data ELSE @,
             !.lastError = IF bridge.mode = "stream" THEN data ELSE @,
             !.wrote.err = @ \o data,
             !.got.err = IF bridge.mode = "stream" THEN @ \o Lines(data) ELSE @,
             !.output = IF bridge.mode = "stream" THEN @ \o Lines(data) ELSE @]
    /\ UNCHANGED <<service, health, build, applied>>

\* the value the 'close' handler resolves with
CloseValue(b, code) ==
    IF b.mode = "buffered"
    THEN [NoResult EXCEPT !.stdout = trim(b.stdout), !.stderr = trim(b.stderr),
                          !.exitCode = OrOne(code)]
    ELSE [NoResult EXCEPT !.exitCode = OrOne(code),
                          !.error = IF code # <<0>> THEN b.lastError ELSE <<>>]

\* proc.on('close', ...) of a process that ran
BridgeClose ==
    /\ bridge.pc = "running"
    /\ \E code \in ExitCodes :
          bridge' = [Resolve(bridge, CloseValue(bridge, code)) EXCEPT
                        !.pc = "closed", !.code = code]
    /\ UNCHANGED <<service, health, build, applied>>

\* variant: the 'error' handler rejects the promise
BridgeError_Rejects ==
    /\ bridge.pc = "failed"
    /\ bridge' = [bridge EXCEPT !.pc = "errored", !.settled = "rejected"]
    /\ UNCHANGED <<service, health, build, applied>>

\* proc.on('error', ...)
BridgeError ==
    /\ bridge.pc = "failed"
    /\ bridge' = [Resolve(bridge,
                     IF bridge.mode = "buffered"
                     THEN [NoResult EXCEPT !.stderr = MessageOf(bridge.spawn), !.exitCode = 1]
                     ELSE [NoResult EXCEPT !.error = MessageOf(bridge.spawn), !.exitCode = 1])
                  EXCEPT !.pc = "errored"]
    /\ UNCHANGED <<service, health, build, applied>>

\* proc.on('close', ...) after the 'error' of a failed spawn
BridgeCloseAfterError ==
    /\ bridge.pc = "errored"
    /\ \E code \in FailedCodes :
          bridge' = [Resolve(bridge, CloseValue(bridge, code)) EXCEPT
                        !.pc = "closed", !.code = code]
    /\ UNCHANGED <<service, health, build, applied>>

NextBridge ==
    \/ BridgeSpawn
    \/ BridgeStdout
    \/ BridgeStderr
    \/ BridgeClose
    \/ BridgeError
    \/ BridgeCloseAfterError

SpecBridge == InitBridge /\ [][NextBridge]_vars

---------------------------------------------------------------------------
(* streamContainerLogs when `docker` cannot be spawned.  spawn returns a   *)
(* child object all the same, and the child emits 'error' on a later tick; *)
(* an 'error' event without a listener is thrown by the emitter, and       *)
(* nothing is there to catch it.  `bridge` holds that child.               *)

\* the events streamContainerLogs listens to: 'data' of stdout and of stderr
LogsListeners == {"data"}

\* the child of a spawn that failed
FailedChild(errno) == [pc |-> "failed", mode |-> "logs", spawn |-> errno, listeners |-> LogsListeners]

\* step 6 of a deploy whose log-stream process cannot be spawned: the handle
\* is registered and the success returned as with a process that runs
DeployAttachSpawnFails(c) ==
    /\ NoDone
    /\ calls[c].pc = "attach"
    /\ bridge = NoBridge
    /\ LET s == startLogStreaming(logStreamers, streams, calls[c].p, calls[c].b)
       IN  /\ logStreamers' = s.reg
           /\ streams' = s.strs
    /\ calls' = [calls EXCEPT ![c] =
          [Return(c, "success", "none", "attach") EXCEPT !.prev = logStreamers[calls[c].p]]]
    /\ \E errno \in SpawnResults \ {"spawned"} : bridge' = FailedChild(errno)
    /\ UNCHANGED <<containers, images, begun, last, health, build, applied>>

\* recoverLogStreams attaching when the process cannot be spawned
RecoverAttachSpawnFails(c) ==
    /\ NoDone
    /\ calls[c].pc = "r_attach"
    /\ calls[c].list # {}
    /\ bridge = NoBridge
    /\ LET s == attachAll(logStreamers, streams, calls[c].list)
       IN  /\ logStreamers' = s.reg
           /\ streams' = s.strs
    /\ calls' = [calls EXCEPT ![c] =
          [Return(c, "void", "none", "attach") EXCEPT !.prev = logStreamers[PA]]]
    /\ \E errno \in SpawnResults \ {"spawned"} : bridge' = FailedChild(errno)
    /\ UNCHANGED <<containers, images, begun, last, health, build, applied>>

\* the child emits 'error'
ChildError ==
    /\ bridge.pc = "failed"
    /\ bridge' = [bridge EXCEPT !.pc = IF "error" \in bridge.listeners THEN "absorbed"
                                        ELSE "uncaught"]
    /\ UNCHANGED <<service, health, build, applied>>

\* the process goes on until an exception is left uncaught
NextSpawn ==
    /\ bridge.pc # "uncaught"
    /\ \/ NextSeq
       \/ \E c \in Callers : DeployAttachSpawnFails(c) \/ RecoverAttachSpawnFails(c)
       \/ ChildError

SpecSpawn == InitRecover /\ [][NextSpawn]_vars

---------------------------------------------------------------------------
(* Properties.                                                             *)

Has(t, x) == \E i \in DOMAIN t : t[i] = x

Count(t, x) == Cardinality({i \in DOMAIN t : t[i] = x})

Pos(t, x) == Smallest({i \in DOMAIN t : t[i] = x})

Finished(c, op) == calls[c].op = op /\ calls[c].pc = "done"

\* C1: with calls that do not overlap, a deploy issues its run only when no
\* container holds the project's name, whatever state the one it found was in
\* (so the run never meets the old container), and from the run on the only
\* container under the name is the one this deploy made.
C1_TeardownBeforeRun ==
    \A c \in Callers :
        calls[c].op = "deploy" =>
            /\ calls[c].pc = "run" => containers[Name(c)].status = "absent"
            /\ calls[c].pc \in {"health", "h_logs", "h_stop", "h_rm", "prune", "prune_rm", "attach"}
                  => /\ containers[Name(c)].id = calls[c].made
                     /\ calls[c].made # 0
            /\ Cardinality({n \in ContainerNames :
                               /\ containers[n].status = "running"
                               /\ containers[n].projectId = calls[c].p}) <= 1

\* a deploy that found an exited container has removed it and started its own
C1_Witness ==
    \E c \in Callers :
        /\ calls[c].op = "deploy"
        /\ calls[c].pc = "health"
        /\ calls[c].found = "exited"
        /\ Has(calls[c].trace, "rm")
        /\ containers[Name(c)].status = "running"

\* C2: with calls that do not overlap, a deploy that returns success leaves
\* the project's container running, its health check passed, and the id it
\* returns is the id of the container that bears the name.
C2_SuccessMeansRunning ==
    \A c \in Callers :
        Finished(c, "deploy") /\ calls[c].out = "success" =>
            /\ isContainerRunning(containers, Name(c))
            /\ calls[c].healthy
            /\ calls[c].cid # 0
            /\ getContainerInfo(containers, Name(c)).id = calls[c].cid
            /\ containers[Name(c)].buildId = calls[c].b

C2_Witness ==
    \E c \in Callers :
        /\ Finished(c, "deploy")
        /\ calls[c].out = "success"
        /\ calls[c].found = "running"
        /\ containers[Name(c)].id = calls[c].cid

\* C3: a deploy that returns failure leaves no container that it created.
C3_FailureLeavesNothing ==
    \A c \in Callers :
        Finished(c, "deploy") /\ calls[c].out = "failure" =>
            ~(calls[c].made # 0 /\ containers[Name(c)].id = calls[c].made)

\* C4: deploy never rejects: whatever fails, the log sink included, the
\* call resolves to an outcome.
C4_NeverRejects ==
    \A c \in Callers :
        Finished(c, "deploy") => calls[c].out \in {"success", "failure"}

\* the stage a runtime operation of a deploy belongs to
Rank(e) ==
    CASE e \in {"inspect", "stop", "rm"} -> 1
      [] e = "build" -> 2
      [] e = "run" -> 3
      [] e = "health" -> 4
      [] e \in {"images", "rmi", "rmi failed"} -> 5
      [] e = "attach" -> 6
      [] OTHER -> 0

\* the operations of a deploy up to its health check, and all of them when the
\* check passed (what follows a failed check is the rollback, not a stage)
Stages(c) ==
    LET t == calls[c].trace
    IN  IF Has(t, "health") /\ ~calls[c].healthy THEN SubSeq(t, 1, Pos(t, "health")) ELSE t

\* C5: the operations of one deploy come in the order teardown, build, run,
\* health check, prune, log-stream attachment, one stage ending before the
\* next begins; build and run are issued at most once; a successful deploy
\* went through every stage.
C5_StageOrder ==
    \A c \in Callers :
        calls[c].op = "deploy" =>
            LET t == Stages(c)
            IN  /\ \A i \in 1..(Len(t) - 1) : Rank(t[i]) <= Rank(t[i + 1])
                /\ \A i \in DOMAIN t : Rank(t[i]) # 0
                /\ Count(calls[c].trace, "build") <= 1
                /\ Count(calls[c].trace, "run") <= 1
                /\ Count(calls[c].trace, "health") <= 1
                /\ Count(calls[c].trace, "attach") <= 1
                /\ t # <<>> => Rank(t[1]) = 1
                /\ \A i \in 1..(Len(t) - 1) : Rank(t[i + 1]) <= Rank(t[i]) + 1
                /\ calls[c].out = "success" => Has(t, "attach")

\* a successful deploy that removed an old container and pruned an image
C5_Witness ==
    \E c \in Callers :
        /\ Finished(c, "deploy")
        /\ calls[c].out = "success"
        /\ Has(calls[c].trace, "rm")
        /\ Has(calls[c].trace, "rmi")

\* C6: a deploy whose health check timed out has read the last 50 log lines
\* of the container it started while that container existed, then stopped it,
\* then removed it, and returns the failure 'Health check failed'; it listed
\* no images to prune and attached no log stream, and its container is gone.
C6_HealthTimeoutRollsBack ==
    \A c \in Callers :
        Finished(c, "deploy") /\ Has(calls[c].trace, "health") /\ ~calls[c].healthy =>
            LET t == calls[c].trace
                k == Pos(t, "health")
            IN  /\ calls[c].out = "failure"
                /\ calls[c].err = "Health check failed"
                /\ SubSeq(t, k + 1, Len(t)) = <<"logs", "stop", "rm">>
                /\ calls[c].tail = LogTail
                /\ calls[c].logsOf # 0
                /\ calls[c].logsOf = calls[c].made
                /\ containers[Name(c)].status = "absent"
                /\ ~Has(t, "images")
                /\ ~Has(t, "attach")
                /\ logStreamers[calls[c].p] = calls[c].prev

C6_Witness ==
    \E c \in Callers :
        /\ Finished(c, "deploy")
        /\ calls[c].err = "Health check failed"
        /\ calls[c].logsOf # 0
        /\ calls[c].prev # 0

\* C7: whatever the interleaving of deploy, stop, cleanup and
\* recoverLogStreams, every log-stream process whose handle was not called is
\* the one the registry holds for its project (so there is at most one per
\* project), and every handle in the registry is of a live process.
C7_OneStreamPerProject ==
    /\ \A s \in streams : logStreamers[s.owner] = s.id
    /\ \A x, y \in streams : x.owner = y.owner => x = y
    /\ \A p \in ProjectIds :
          logStreamers[p] # 0 => \E s \in streams : s.id = logStreamers[p] /\ s.owner = p

\* an attachment has replaced a registered handle
C7_Witness ==
    \E c \in Callers :
        /\ calls[c].pc = "done"
        /\ calls[c].op \in {"deploy", "recover"}
        /\ calls[c].prev # 0
        /\ logStreamers[PA] # 0
        /\ Cardinality(streams) = 1

\* C8: with calls that do not overlap, stop has called and dropped the
\* project's handle before its first runtime command, and when it returns the
\* registry has no entry for the project and no container bears the name.
C8_StopCancelsFirst ==
    \A c \in Callers :
        calls[c].op = "stop" =>
            /\ calls[c].trace # <<>>
            /\ Head(calls[c].trace) = "cancel"
            /\ logStreamers[calls[c].p] = 0
            /\ \A s \in streams : s.owner # calls[c].p
            /\ calls[c].pc = "done" => containers[Name(c)].status = "absent"

C8_Witness ==
    \E c \in Callers :
        /\ Finished(c, "stop")
        /\ calls[c].prev # 0
        /\ calls[c].found = "running"
        /\ calls[c].out = "true"

\* C9: a stop that follows a stop, and so finds neither container nor
\* handle, changes nothing in the runtime or the registry and returns true.
C9_SecondStopIsNoOp ==
    [][\A c \in Callers :
          calls'[c].op = "stop" /\ last' = "stop" /\ calls'[c].found = "absent" /\ calls'[c].prev = 0 =>
              /\ UNCHANGED <<containers, images, logStreamers, streams, health, build, applied, bridge>>
              /\ calls'[c].pc = "done" => calls'[c].out = "true"]_vars

C9_Witness ==
    \E c \in Callers :
        /\ Finished(c, "stop")
        /\ last = "stop"
        /\ calls[c].found = "absent"
        /\ calls[c].prev = 0
        /\ calls[c].out = "true"

\* C10: with calls that do not overlap, when cleanup returns the project has
\* no handle and no container, and no image of a listed build is left, also
\* when the removal of an earlier one in the list failed.
C10_CleanupRemovesAll ==
    \A c \in Callers :
        Finished(c, "cleanup") =>
            /\ logStreamers[calls[c].p] = 0
            /\ \A s \in streams : s.owner # calls[c].p
            /\ containers[Name(c)].status = "absent"
            /\ calls[c].todo = <<>>
            /\ \A i \in DOMAIN calls[c].ids :
                  getImageName(calls[c].p, calls[c].ids[i]) \notin Range(images)

\* a cleanup whose first removal failed and whose second one removed an image
C10_Witness ==
    \E c \in Callers :
        /\ Finished(c, "cleanup")
        /\ calls[c].found = "running"
        /\ calls[c].prev # 0
        /\ calls[c].ids = <<B2, B1>>
        /\ Has(calls[c].trace, "rmi failed")
        /\ Has(calls[c].trace, "rmi")
        /\ Pos(calls[c].trace, "rmi failed") < Pos(calls[c].trace, "rmi")

\* the project has a running container that carries both management labels
Managed(cs, p) ==
    \E n \in DOMAIN cs :
        cs[n].status = "running" /\ cs[n].projectId = p /\ cs[n].buildId # NoId

\* C11: recoverLogStreams changes no container and no image, and when it ran
\* on an empty registry it ends with a handle for exactly the projects that
\* have a running container carrying both labels, each handle being of a
\* stream of that container that forwards to the build its label names.
C11_RecoverRebuildsRegistry ==
    [][\A c \in Callers :
          /\ calls'[c].op = "recover" => containers' = containers /\ images' = images
          /\ (/\ calls[c].op = "recover"
              /\ calls'[c].pc = "done"
              /\ \A p \in ProjectIds : logStreamers[p] = 0)
             => /\ \A p \in ProjectIds : logStreamers'[p] # 0 <=> Managed(containers', p)
                /\ \A p \in ProjectIds :
                      logStreamers'[p] # 0 =>
                          \E s \in streams' :
                              /\ s.id = logStreamers'[p]
                              /\ s.owner = p
                              /\ containers'[s.name].status = "running"
                              /\ containers'[s.name].projectId = p
                              /\ containers'[s.name].buildId = s.sink
                /\ Cardinality(streams') = Cardinality({p \in ProjectIds : logStreamers'[p] # 0})]_vars

\* a first call of recoverLogStreams that attached both projects' containers
C11_Witness ==
    \E c \in Callers :
        /\ Finished(c, "recover")
        /\ begun = 1
        /\ logStreamers[PA] # 0
        /\ logStreamers[PB] # 0
        /\ logStreamers[PA] # logStreamers[PB]
        /\ Cardinality(streams) = 2

\* C12: with calls that do not overlap, a deploy whose build failed has
\* returned failure with the build's error text, has issued no run and has
\* started no container: the project's name is free.
C12_BuildFailureEndsDeploy ==
    \A c \in Callers :
        calls[c].op = "deploy" /\ calls[c].built \in BuildErrors =>
            /\ calls[c].pc = "done"
            /\ calls[c].out = "failure"
            /\ calls[c].err = calls[c].built
            /\ ~Has(calls[c].trace, "run")
            /\ calls[c].made = 0
            /\ calls[c].cid = 0
            /\ containers[Name(c)].status = "absent"

\* a failed build after the teardown of a running container
C12_Witness ==
    \E c \in Callers :
        /\ Finished(c, "deploy")
        /\ calls[c].built = "stderr of the build"
        /\ calls[c].err = "stderr of the build"
        /\ calls[c].found = "running"
        /\ Has(calls[c].trace, "rm")

\* C13: waitForHealthy returns true exactly when a request it issued got a
\* response with a status below 500, and it returns as soon as that happens;
\* every request is issued before the timeout has elapsed, and one interval
\* after the previous request ended.
C13_HealthyIffResponseBelow500 ==
    [][/\ health'.pc = "done" => (health'.result <=> health'.seenOk)
       /\ health'.seenOk => health'.pc = "done"
       /\ health.pc = "check" /\ health'.pc = "fetch" =>
             /\ health'.issued - health'.start < health'.timeoutMs
             /\ health.polled => health'.issued = health.ended + Interval]_vars

\* a client error answered to a later request ends the wait with true
C13_Witness ==
    /\ health.pc = "done"
    /\ health.result
    /\ health.status = 404
    /\ health.issued >= 2 * Interval
    /\ health.timeoutMs = DeployTimeoutMs

\* the longest a request that ends can take
MaxDuration == CHOOSE d \in Durations : \A e \in Durations : e <= d

\* C14: against a responder that is never reached, waitForHealthy ends with
\* false, not before the timeout and not later than the timeout plus what
\* the last request and the last sleep took, also when a request gets no
\* answer.
C14_FailsAtTimeout ==
    health.pc # "idle" /\ health.unreached =>
        /\ health.pc = "done" => ~health.result /\ Elapsed >= health.timeoutMs
        /\ Elapsed <= health.timeoutMs + Interval + MaxDuration

---------------------------------------------------------------------------
(* Claim C15: a recipe file the user supplied (present in the source       *)
(* directory when the build starts) still exists in the source directory   *)
(* when buildImage has returned, whether the build succeeded or failed.    *)

C15_UserRecipeKept ==
    (build.pc = "done" /\ build.user) => build.exists

---------------------------------------------------------------------------
(* Claim C16: when the source directory holds no recipe file at the start  *)
(* of the build, the builder synthesizes one, and once the image build has *)
(* completed, with success or with failure, the source directory again     *)
(* holds no recipe file.                                                   *)

C16_GeneratedRecipeDeleted ==
    /\ (build.pc \in {"docker", "cleanup"} /\ ~build.user) =>
          /\ build.dockerfileGenerated
          /\ build.exists
          /\ build.file = getDockerfileContent(build.framework, build.internalPort,
                                               build.entryFile)
    /\ (build.pc = "done" /\ build.dir /\ ~build.user) =>
          /\ build.dockerfileGenerated
          /\ ~build.exists
          /\ (build.result = "ok") = (build.exitCode = 0)

\* a build on a synthesized recipe has failed and returned
C16_Witness ==
    /\ build.pc = "done"
    /\ build.dir
    /\ ~build.user
    /\ build.dockerfileGenerated
    /\ build.exitCode # 0
    /\ build.result = "Docker build failed"
    /\ ~build.exists

---------------------------------------------------------------------------
(* How a recipe reads to the image build: a line is an instruction whose   *)
(* keyword is its first word, in any letter case, separated from its       *)
(* arguments by blanks or tabs; a line that begins with # is a comment.    *)

\* the first position at or after i that holds white space
RECURSIVE WordEnd(_, _)
WordEnd(str, i) ==
    IF i <= Len(str) /\ str[i] \notin WhiteSpace THEN WordEnd(str, i + 1) ELSE i

Keyword(line) ==
    LET t == trim(line) IN toUpperCase(SubSeq(t, 1, WordEnd(t, 1) - 1))

Arguments(line) ==
    LET t == trim(line) IN trim(SubSeq(t, WordEnd(t, 1), Len(t)))

IsComment(line) == LET t == trim(line) IN t # <<>> /\ t[1] = "#"

Exposes(line) == Keyword(line) = <<"E", "X", "P", "O", "S", "E">>

\* the user's recipe has been sanitized
Sanitized == build.user /\ build.pc \in {"docker", "cleanup", "done"}

---------------------------------------------------------------------------
(* Claim C17: the sanitized form of a user-supplied recipe exposes the     *)
(* assigned internal port and no other: it holds a port-exposing           *)
(* instruction, and every port-exposing instruction of it, in whatever     *)
(* letter case and with whatever white space after the keyword, names the  *)
(* internal port.                                                          *)

C17_ExposesOnlyInternalPort ==
    Sanitized =>
        LET out == split(build.sanitized) IN
        /\ \E i \in DOMAIN out : Exposes(out[i])
        /\ \A i \in DOMAIN out :
              Exposes(out[i]) => Arguments(out[i]) = NumStr(build.internalPort)

---------------------------------------------------------------------------
(* Claim C18: the sanitized form of a user-supplied recipe holds an ENV    *)
(* instruction that assigns PORT the internal port; ENV instructions for   *)
(* other variables are in it unchanged; and when no instruction of the     *)
(* user's recipe assigned PORT, ENV PORT=<port> stands immediately before  *)
(* the first CMD or ENTRYPOINT instruction, or at the end without one.     *)

\* the first position at or after i that holds white space or "="
RECURSIVE NameEnd(_, _)
NameEnd(str, i) ==
    IF i <= Len(str) /\ str[i] \notin WhiteSpace /\ str[i] # "="
    THEN NameEnd(str, i + 1) ELSE i

IsEnv(line) == Keyword(line) = <<"E", "N", "V">>

\* the variable an ENV instruction names first, and the value it gives it
EnvName(line) ==
    LET a == Arguments(line) IN SubSeq(a, 1, NameEnd(a, 1) - 1)

EnvValue(line) ==
    LET a == Arguments(line)
        n == NameEnd(a, 1)
        v == IF n <= Len(a) /\ a[n] = "=" THEN n + 1 ELSE SkipSpace(a, n)
    IN  SubSeq(a, v, WordEnd(a, v) - 1)

AssignsPort(line) == IsEnv(line) /\ EnvName(line) = PortWord

IsEntry(line) == Keyword(line) \in {CmdKeyword, EntrypointKeyword}

C18_PortVariableSet ==
    Sanitized =>
        LET in == split(build.supplied)
            out == split(build.sanitized)
            port == NumStr(build.internalPort)
            entries == {i \in DOMAIN out : IsEntry(out[i])}
        IN
        /\ \E i \in DOMAIN out : AssignsPort(out[i]) /\ EnvValue(out[i]) = port
        /\ \A i \in DOMAIN in :
              (IsEnv(in[i]) /\ ~AssignsPort(in[i])) =>
                  \E j \in DOMAIN out : out[j] = in[i]
        /\ (\A i \in DOMAIN in : ~AssignsPort(in[i])) =>
              IF entries = {}
              THEN out[Len(out)] = EnvKeyword \o PortAssign \o port
              ELSE /\ Smallest(entries) > 1
                   /\ out[Smallest(entries) - 1] = EnvKeyword \o PortAssign \o port

---------------------------------------------------------------------------
(* Claim C19: in the sanitized form of a user-supplied recipe no active    *)
(* (uncommented) line sets USER root, contains --privileged or refers to   *)
(* docker.sock, whatever instruction it begins with; every such line of    *)
(* the user's recipe is kept as a comment that holds its original text;    *)
(* and no line is dropped.                                                 *)

SetsUserRoot(line) ==
    /\ Keyword(line) = <<"U", "S", "E", "R">>
    /\ startsWith(toUpperCase(Arguments(line)), <<"R", "O", "O", "T">>)

Dangerous(line) ==
    /\ ~IsComment(line)
    /\ \/ SetsUserRoot(line)
       \/ includes(toUpperCase(line), Privileged)
       \/ includes(toUpperCase(line), DockerSock)

C19_NoDangerousLineActive ==
    Sanitized =>
        LET in == split(build.supplied)
            out == split(build.sanitized)
        IN
        /\ \A j \in DOMAIN out : ~Dangerous(out[j])
        /\ \A i \in DOMAIN in :
              Dangerous(in[i]) =>
                  \E j \in DOMAIN out : IsComment(out[j]) /\ includes(out[j], in[i])
        /\ Len(in) <= Len(out)
        /\ Len(out) <= Len(in) + 2

---------------------------------------------------------------------------
(* Claim C20: sanitizing a user-supplied recipe that already exposes the   *)
(* internal port, already assigns PORT the internal port and holds no      *)
(* dangerous line, in whatever letter case, indentation or ENV separator,  *)
(* gives content equal to the original, and the file is not written.       *)

AlreadyCorrect(content, internalPort) ==
    LET in == split(content)
        port == NumStr(internalPort)
    IN
    /\ \E i \in DOMAIN in : Exposes(in[i])
    /\ \A i \in DOMAIN in : Exposes(in[i]) => Arguments(in[i]) = port
    /\ \E i \in DOMAIN in : AssignsPort(in[i])
    /\ \A i \in DOMAIN in : AssignsPort(in[i]) => EnvValue(in[i]) = port
    /\ \A i \in DOMAIN in : ~Dangerous(in[i])

C20_CorrectRecipeUntouched ==
    (Sanitized /\ AlreadyCorrect(build.supplied, build.internalPort)) =>
        /\ build.sanitized = build.supplied
        /\ ~build.written

---------------------------------------------------------------------------
(* Claim C21: pruning a project with retention N, every deletion           *)
(* succeeding, removes exactly the images of that project that are not     *)
(* among its N most recently created ones and keeps those N, so with N or  *)
(* fewer images nothing is deleted and with N = 3 and five images exactly  *)
(* the two oldest are; the images of other projects stay.  After a         *)
(* successful deploy whose deletions succeeded at most 3 images of the     *)
(* project remain.                                                         *)

AllBuildIds == BuildIds \cup {O1, O2, O3}

\* the images of a project in a store, by the naming rule
Mine(imgs, p) == {x \in Range(imgs) : \E b \in AllBuildIds : x = getImageName(p, b)}

\* its n most recently created ones
Newest(imgs, p, n) ==
    {imgs[i] : i \in {k \in DOMAIN imgs :
        /\ imgs[k] \in Mine(imgs, p)
        /\ Cardinality({j \in DOMAIN imgs : j > k /\ imgs[j] \in Mine(imgs, p)}) < n}}

\* a call that pruned has returned
Pruned(c) ==
    /\ calls[c].pc = "done"
    /\ Has(calls[c].trace, "images")
    /\ \/ calls[c].op = "prune"
       \/ calls[c].op = "deploy" /\ calls[c].out = "success"

C21_PruneKeepsNewest ==
    \A c \in Callers :
        (Pruned(c) /\ ~Has(calls[c].trace, "rmi failed")) =>
            LET before == calls[c].listed
                p == calls[c].p
                kept == Newest(before, p, calls[c].keep) \cup (Range(before) \ Mine(before, p))
            IN
            /\ images = Filter(before, kept)
            /\ Mine(images, p) = Newest(before, p, calls[c].keep)
            /\ Count(calls[c].trace, "rmi") = Cardinality(Mine(before, p) \ Mine(images, p))
            /\ Cardinality(Mine(before, p)) <= calls[c].keep =>
                  images = before /\ ~Has(calls[c].trace, "rmi")
            /\ calls[c].op = "deploy" =>
                  calls[c].keep = 3 /\ Cardinality(Mine(images, p)) <= 3

\* a deploy found five images of its project and removed the two oldest
C21_Witness ==
    \E c \in Callers :
        /\ Pruned(c)
        /\ calls[c].op = "deploy"
        /\ Cardinality(Mine(calls[c].listed, calls[c].p)) = 5
        /\ Count(calls[c].trace, "rmi") = 2
        /\ ~Has(calls[c].trace, "rmi failed")
        /\ images = <<getImageName(PA, O3), getImageName(PA, B1), getImageName(PA, B2)>>

---------------------------------------------------------------------------
(* Claim C22: during the pruning of a deploy a deletion that fails does    *)
(* not end the loop: every image beyond the retention count gets its       *)
(* deletion attempt; and a deploy whose listing or whose deletions failed  *)
(* during pruning still returns success.                                   *)

Attempts(c) == Count(calls[c].trace, "rmi") + Count(calls[c].trace, "rmi failed")

C22_PruneFailuresTolerated ==
    \A c \in Callers :
        calls[c].op = "deploy" =>
            /\ calls[c].pc = "prune_rm" =>
                  Attempts(c) + Len(calls[c].todo)
                      = Len(toRemove(calls[c].listed, calls[c].p, KeepCount))
            /\ (calls[c].pc = "done" /\ Has(calls[c].trace, "images")) =>
                  Attempts(c) = Len(toRemove(calls[c].listed, calls[c].p, KeepCount))
            /\ (calls[c].pc = "done" /\ (\/ Has(calls[c].trace, "images failed")
                                         \/ Has(calls[c].trace, "rmi failed"))) =>
                  /\ calls[c].out = "success"
                  /\ calls[c].healthy
                  /\ isContainerRunning(containers, Name(c))

\* the first of two deletions failed, the second was made, the deploy succeeded
C22_Witness ==
    \E c \in Callers :
        /\ calls[c].op = "deploy"
        /\ calls[c].pc = "done"
        /\ calls[c].out = "success"
        /\ Len(toRemove(calls[c].listed, calls[c].p, KeepCount)) = 2
        /\ \E i, j \in DOMAIN calls[c].trace :
              i < j /\ calls[c].trace[i] = "rmi failed" /\ calls[c].trace[j] = "rmi"

---------------------------------------------------------------------------
(* Claim C23: whatever the interleaving, a step of a deploy, stop or       *)
(* cleanup call for one project leaves alone every project whose           *)
(* identifier differs from its own in the first 8 characters: that         *)
(* project's container is not stopped, removed or replaced, none of its    *)
(* images is deleted, its registered log handle is not replaced and its    *)
(* log streams are not cancelled.                                          *)

\* the project of the call that caller c makes a step of
StepsFor(c) == IF calls[c].op = "idle" THEN calls'[c].p ELSE calls[c].p

Untouched(q) ==
    /\ containers'[getContainerName(q)] = containers[getContainerName(q)]
    /\ Mine(images, q) \subseteq Range(images')
    /\ logStreamers'[q] = logStreamers[q]
    /\ {x \in streams : x.owner = q} \subseteq streams'

C23_ProjectsIndependent ==
    [][\A c \in Callers :
          calls'[c] # calls[c] =>
              \A q \in ProjectIds :
                  Slice(q, NameLen) # Slice(StepsFor(c), NameLen) => Untouched(q)]_vars

\* a cleanup of the first project has removed its container and an image
\* while the second project is deployed: container, images, handle, stream
C23_Witness ==
    \E c \in Callers :
        /\ calls[c].op = "cleanup"
        /\ calls[c].p = PA
        /\ calls[c].pc = "done"
        /\ calls[c].found = "running"
        /\ Has(calls[c].trace, "rm")
        /\ Has(calls[c].trace, "rmi")
        /\ containers[getContainerName(PB)].status = "running"
        /\ Mine(images, PB) = Mine(Mixed, PB)
        /\ logStreamers[PB] # 0
        /\ \E x \in streams : x.id = logStreamers[PB] /\ x.owner = PB

---------------------------------------------------------------------------
(* Claim C24: overlapping deploys of one project are not serialized.  The  *)
(* container a deploy has started can be taken away while that deploy is   *)
(* still in flight, and what takes it away is the teardown or the rollback *)
(* of the other deploy (besides its own rollback): the other call stops or *)
(* removes whatever bears the project's name.  The witness is the lost     *)
(* deploy this ends with: a call returns success for a container that no   *)
(* longer exists.                                                          *)

Holds(c) ==
    /\ calls[c].op = "deploy"
    /\ calls[c].made # 0
    /\ containers[Name(c)].id = calls[c].made
    /\ containers[Name(c)].status = "running"

C24_OverlappingDeploysRace ==
    [][\A c \in Callers :
          (Holds(c) /\ containers'[Name(c)] # containers[Name(c)]) =>
              \/ calls'[c] # calls[c] /\ calls[c].pc \in {"h_stop", "h_rm"}
              \/ \E d \in Callers \ {c} :
                    /\ calls'[d] # calls[d]
                    /\ calls[d].op = "deploy"
                    /\ calls[d].p = calls[c].p
                    /\ calls[d].pc \in {"td_stop", "td_rm", "h_stop", "h_rm"}]_vars

\* one call returns success for a container that is gone, after the other
\* call's teardown removed it
C24_Witness ==
    \E c \in Callers, d \in Callers :
        /\ c # d
        /\ Finished(c, "deploy")
        /\ calls[c].out = "success"
        /\ calls[c].healthy
        /\ calls[c].made # 0
        /\ containers[Name(c)].status = "absent"
        /\ calls[d].op = "deploy"
        /\ calls[d].p = calls[c].p
        /\ calls[d].found = "absent"
        /\ Has(calls[d].trace, "rm")
        /\ calls[d].made = 0

---------------------------------------------------------------------------
(* Claim C25: the container name is 'thakur-' followed by the first 8      *)
(* characters of the project identifier; the image reference is            *)
(* 'thakur-deploy/', the first 8 characters of the project identifier,     *)
(* ':' and the first 8 characters of the build identifier; and two         *)
(* projects whose identifiers differ in their first 8 characters get       *)
(* different container names.                                              *)

Min(a, b) == IF a < b THEN a ELSE b

\* s is t's first n characters (all of t when t is shorter)
FirstOf(s, t, n) == Len(s) = Min(Len(t), n) /\ \A i \in DOMAIN s : s[i] = t[i]

\* position of the first ":" of s
Colon(s) == Smallest({i \in DOMAIN s : s[i] = ":"})

C25_NamingRule ==
    (applied.fn = "naming" /\ applied.pc = "done") =>
        LET name == applied.containerName
            image == applied.imageName
        IN
        /\ SubSeq(name, 1, 7) = <<"t", "h", "a", "k", "u", "r", "-">>
        /\ FirstOf(SubSeq(name, 8, Len(name)), applied.p, 8)
        /\ SubSeq(image, 1, 14) = <<"t", "h", "a", "k", "u", "r", "-", "d", "e", "p", "l", "o", "y", "/">>
        /\ \E i \in DOMAIN image : image[i] = ":"
        /\ FirstOf(SubSeq(image, 15, Colon(image) - 1), applied.p, 8)
        /\ FirstOf(SubSeq(image, Colon(image) + 1, Len(image)), applied.b, 8)
        /\ (applied.p = TestProjectId) => name = <<"t", "h", "a", "k", "u", "r", "-", "a", "b", "c", "1", "2", "3", "4", "5">>
        /\ (applied.p = TestProjectShort /\ applied.b = TestBuildId) => image = <<"t", "h", "a", "k", "u", "r", "-", "d", "e", "p", "l", "o", "y", "/", "p", "r", "o", "j", "e", "c", "t", "-", ":", "b", "u", "i", "l", "d", "-", "4", "5">>
        /\ applied.p = applied.q => applied.otherName = name
        /\ (\E i \in 1..8 : \/ i <= Len(applied.p) /\ i > Len(applied.q)
                            \/ i > Len(applied.p) /\ i <= Len(applied.q)
                            \/ /\ i <= Len(applied.p) /\ i <= Len(applied.q)
                               /\ applied.p[i] # applied.q[i])
              => applied.otherName # name

\* two identifiers longer than 8 characters that differ in the 8th only
C25_Witness ==
    /\ applied.fn = "naming"
    /\ applied.pc = "done"
    /\ Len(applied.p) > 8
    /\ Len(applied.q) > 8
    /\ applied.p[8] # applied.q[8]
    /\ \A i \in 1..7 : applied.p[i] = applied.q[i]
    /\ applied.otherName # applied.containerName
    /\ Len(applied.containerName) = 15

---------------------------------------------------------------------------
(* Claim C26: the internal port deploy uses for build and run is 80 for    *)
(* the application type 'vite' and 3000 for every other type, whatever the *)
(* host port and the environment map; the recipe synthesized for 'vite' is *)
(* the static-file-serving template whatever entry file was detected; and  *)
(* run publishes exactly the mapping of the host port to the internal      *)
(* port.                                                                   *)

\* what `docker run` reads from an argument list: the values of a flag
ValuesOf(args, flag) == {args[i + 1] : i \in {k \in 1..(Len(args) - 1) : args[k] = flag}}

Derived == applied.fn = "deploy" /\ applied.pc = "done"

C26_InternalPortByAppType ==
    Derived =>
        LET port == IF applied.appType = "vite" THEN 80 ELSE 3000
            lines == split(applied.recipe)
        IN
        /\ applied.internalPort = port
        /\ applied.buildPort = port
        /\ ValuesOf(applied.args, DashP) = {NumStr(applied.hostPort) \o <<":">> \o NumStr(port)}
        /\ \A i \in DOMAIN lines : Exposes(lines[i]) => Arguments(lines[i]) = NumStr(port)
        /\ \E i \in DOMAIN lines : Exposes(lines[i])
        /\ applied.appType = "vite" =>
              /\ applied.recipe = join(ViteTemplate)
              /\ applied.entryFile # NoEntry => ~includes(applied.recipe, applied.entryFile)

\* a vite deploy with a detected entry file, a host port that is neither
\* internal port and an environment map that names another port
C26_Witness ==
    /\ Derived
    /\ applied.appType = "vite"
    /\ applied.entryFile # NoEntry
    /\ applied.hostPort = 8080
    /\ Defines(applied.envVars, PortWord)
    /\ ValueOf(applied.envVars, PortWord) = NumStr(3000)
    /\ applied.internalPort = 80

---------------------------------------------------------------------------
(* Claim C27: run passes the container exactly one PORT setting: the       *)
(* internal port when the caller's environment map does not define PORT,   *)
(* and the caller's value, and nothing else, when the map defines PORT,    *)
(* the empty string included.                                              *)

\* an environment setting KEY=VALUE, as the runtime reads it
KeyOf(setting) == SubSeq(setting, 1, Smallest({i \in DOMAIN setting : setting[i] = "="}) - 1)

ValOf(setting) ==
    SubSeq(setting, Smallest({i \in DOMAIN setting : setting[i] = "="}) + 1, Len(setting))

\* the positions of the settings of a variable in an argument list
SettingsOf(args, key) ==
    {i \in 2..Len(args) : args[i - 1] = DashE /\ KeyOf(args[i]) = key}

C27_OnePortSetting ==
    Derived =>
        LET at == SettingsOf(applied.args, PortWord) IN
        /\ Cardinality(at) = 1
        /\ \A i \in at :
              ValOf(applied.args[i]) =
                  IF Defines(applied.envVars, PortWord)
                  THEN ValueOf(applied.envVars, PortWord)
                  ELSE NumStr(applied.internalPort)

---------------------------------------------------------------------------
(* Claim C28: in buffered and in streaming mode a spawn that fails (binary *)
(* missing, permission denied) comes back as a result with a non-zero exit *)
(* status and the error's text; the promise of the bridge is resolved once *)
(* and never rejected, and what it was resolved with first stays; a        *)
(* process that ended without an exit code is reported with a non-zero     *)
(* status.                                                                 *)

Over == bridge.pc \in {"errored", "closed"}

C28_BridgeNeverRejects ==
    /\ bridge.settled # "rejected"
    /\ (bridge.settled = "pending") = (bridge.resolves = 0)
    /\ Over => bridge.settled = "resolved"
    /\ (Over /\ bridge.spawn \in {"ENOENT", "EACCES"}) =>
          /\ bridge.result.exitCode # 0
          /\ bridge.result.stdout = <<>>
          /\ LET text == IF bridge.mode = "buffered" THEN bridge.result.stderr
                                                     ELSE bridge.result.error
             IN  text # <<>> /\ text = MessageOf(bridge.spawn)
    /\ (bridge.pc = "closed" /\ bridge.spawn = "spawned") =>
          /\ bridge.resolves = 1
          /\ (bridge.result.exitCode = 0) = (bridge.code = <<0>>)
          /\ bridge.code = NoCode => bridge.result.exitCode # 0

\* a spawn failed in streaming mode, 'error' and then 'close' were emitted:
\* resolve was called twice and the result is that of the error
C28_Witness ==
    /\ bridge.pc = "closed"
    /\ bridge.mode = "stream"
    /\ bridge.spawn = "ENOENT"
    /\ bridge.resolves = 2
    /\ bridge.settled = "resolved"
    /\ bridge.result.exitCode = 1
    /\ bridge.result.error = MessageOf("ENOENT")

---------------------------------------------------------------------------
(* Claim C29: for a non-static application type and a source tree that    *)
(* contains src/index.ts and no recipe file, the synthesized recipe sets   *)
(* EXPOSE 3000 and ENV PORT=3000 and its start command invokes             *)
(* src/index.ts; in general the entry file used is the first path of the   *)
(* priority list that exists in the source tree.  As amended: this holds   *)
(* when package.json declares no start script; when it declares one, the   *)
(* start command is `bun run start` whatever entry files exist.            *)

\* the exec-form command that runs `what` with bun
BunRuns(what) == <<"[", "\"", "b", "u", "n", "\"", ",", " ", "\"", "r", "u", "n", "\"", ",", " ", "\"">> \o what \o <<"\"", "]">>

StartWord == <<"s", "t", "a", "r", "t">>

\* the start commands of a recipe
StartCommands(recipe) ==
    LET lines == split(recipe)
    IN  {Arguments(lines[i]) : i \in {k \in DOMAIN lines : Keyword(lines[k]) = CmdKeyword}}

\* the recipe has been synthesized for a non-static application type
Synthesized == build.pc = "docker" /\ ~build.user /\ build.framework # "vite"

\* the recipe exposes `port` and nothing else, and sets PORT to it
SetsPort(recipe, port) ==
    LET lines == split(recipe)
    IN  /\ \E i \in DOMAIN lines : Exposes(lines[i])
        /\ \A i \in DOMAIN lines : Exposes(lines[i]) => Arguments(lines[i]) = NumStr(port)
        /\ \E i \in DOMAIN lines : AssignsPort(lines[i])
        /\ \A i \in DOMAIN lines : AssignsPort(lines[i]) => EnvValue(lines[i]) = NumStr(port)

\* path i of the priority list exists and none before it does
FirstExisting(i) ==
    /\ ENTRY_PATTERNS[i] \in build.tree
    /\ \A j \in 1..(i - 1) : ENTRY_PATTERNS[j] \notin build.tree

C29_EntryFileWithoutStartScript ==
    Synthesized =>
        /\ SetsPort(build.file, 3000)
        /\ build.pkg # "start" =>
              /\ \A i \in DOMAIN ENTRY_PATTERNS :
                    FirstExisting(i) =>
                        StartCommands(build.file) = {BunRuns(ENTRY_PATTERNS[i])}
              /\ build.tree = {} => StartCommands(build.file) = {BunRuns(StartWord)}
        /\ build.pkg = "start" => StartCommands(build.file) = {BunRuns(StartWord)}

\* an express build without start script whose source tree holds
\* src/index.ts and two later paths of the list
C29_Witness ==
    /\ Synthesized
    /\ build.framework = "express"
    /\ build.pkg = "no start"
    /\ build.tree = {ENTRY_PATTERNS[1], ENTRY_PATTERNS[5], ENTRY_PATTERNS[8]}
    /\ StartCommands(build.file) = {BunRuns(ENTRY_PATTERNS[1])}

\* the claim as stated: whatever package.json declares
C29_EntryFileFirstExisting ==
    Synthesized =>
        /\ SetsPort(build.file, 3000)
        /\ \A i \in DOMAIN ENTRY_PATTERNS :
              FirstExisting(i) =>
                  StartCommands(build.file) = {BunRuns(ENTRY_PATTERNS[i])}

---------------------------------------------------------------------------
(* Claim C30: log-stream subscriptions opened through the public           *)
(* streamLogs are independent of each other and of the registry: opening   *)
(* one leaves the registry and every other stream as they are, cancelling  *)
(* one ends that subscription and no other stream, and no step of deploy,  *)
(* stop, cleanup or recoverLogStreams cancels a subscription.              *)

C30_SubscriptionsIndependent ==
    [][LET subs == {s \in streams : s.owner = Subscriber}
           subsAfter == {s \in streams' : s.owner = Subscriber}
       IN  /\ calls' = calls =>
                 /\ logStreamers' = logStreamers
                 /\ containers' = containers /\ images' = images
                 /\ Cardinality(streams \ streams') + Cardinality(streams' \ streams) = 1
                 /\ \A s \in (streams \ streams') \cup (streams' \ streams) :
                       /\ s.owner = Subscriber
                       /\ s.sink = onLog
                       /\ \E p \in ProjectIds : s.name = getContainerName(p)
                       /\ \A x \in streams \cup streams' : x.id = s.id => x = s
                       /\ \A p \in ProjectIds : logStreamers[p] # s.id
           /\ calls' # calls => subsAfter = subs]_vars

\* a stop has cancelled the registered stream of a container that two
\* subscriptions follow, one of them opened before the container's deploy
\* registered its own
C30_Witness ==
    \E c \in Callers :
        /\ calls[c].op = "stop"
        /\ calls[c].pc = "done"
        /\ calls[c].prev = 2
        /\ logStreamers[PA] = 0
        /\ {s.id : s \in streams} = {1, 3}
        /\ \A s \in streams : s.owner = Subscriber /\ s.name = getContainerName(PA)

---------------------------------------------------------------------------
(* Claim C31: when every runtime command and every request of the health   *)
(* check ends, every deploy call eventually returns an outcome; the health *)
(* check issues its requests before the timeout has elapsed and at least   *)
(* one interval apart, so their number is bounded by timeout / interval;   *)
(* and no stage of a deploy is gone through twice.                         *)

\* how often a step is in the record of a call
TimesIn(trace, what) == Cardinality({i \in DOMAIN trace : trace[i] = what})

\* the request in flight was issued before the timeout had elapsed, and at
\* least one interval after the request before it ended
PollInTime ==
    health.pc = "fetch" =>
        /\ health.issued - health.start < health.timeoutMs
        /\ health.polled => health.issued >= health.ended + Interval

\* no step of a deploy was taken twice, but the stop and the removal, once
\* each by the teardown and by the rollback, and one rmi per image to prune
StagesOnce(c) ==
    calls[c].op = "deploy" =>
        /\ \A what \in {"inspect", "build", "run", "health", "logs", "images", "attach"} :
              TimesIn(calls[c].trace, what) <= 1
        /\ \A what \in {"stop", "rm"} : TimesIn(calls[c].trace, what) <= 2
        /\ TimesIn(calls[c].trace, "rmi") + TimesIn(calls[c].trace, "rmi failed")
              <= Len(toRemove(calls[c].listed, calls[c].p, calls[c].keep))

C31_DeployReturns ==
    /\ \A c \in Callers :
          (calls[c].op = "deploy")
              ~> (calls[c].pc = "done" /\ calls[c].out \in {"success", "failure"})
    /\ [](PollInTime /\ \A c \in Callers : StagesOnce(c))

\* a deploy has returned its failure after a health check that ran to its
\* timeout
C31_Witness ==
    \E c \in Callers :
        /\ calls[c].op = "deploy"
        /\ calls[c].pc = "done"
        /\ calls[c].out = "failure"
        /\ calls[c].err = "Health check failed"
        /\ ~calls[c].healthy
        /\ health = NoHealth

---------------------------------------------------------------------------
(* Claim C32: in streaming mode, for each of stdout and stderr the         *)
(* callback has received exactly the non-empty lines the stream has        *)
(* produced, one complete line per invocation and in the stream's order,   *)
(* however the output arrived in chunks: while the process runs, the lines *)
(* completed so far; once it has closed, all of them.                      *)

\* the text up to and including its last line feed
Completed(text) ==
    LET ends == {i \in DOMAIN text : text[i] = "\n"}
    IN  IF ends = {} THEN <<>>
        ELSE SubSeq(text, 1, CHOOSE i \in ends : \A j \in ends : j <= i)

\* the non-empty lines of a text
NonEmptyLines(text) ==
    LET all == split(text)
    IN  Filter(all, {l \in Range(all) : l # <<>>})

C32_LinesAsProduced ==
    bridge.pc \in {"running", "closed"} /\ bridge.mode = "stream" =>
        \A s \in {"out", "err"} :
            bridge.got[s] = NonEmptyLines(IF bridge.pc = "closed" THEN bridge.wrote[s]
                                         ELSE Completed(bridge.wrote[s]))

---------------------------------------------------------------------------
(* Claim C33: when the log-stream process cannot be spawned while a        *)
(* successful deploy or recoverLogStreams attaches a stream, the spawn     *)
(* error is absorbed: no exception is left uncaught.                       *)

C33_SpawnErrorAbsorbed == bridge.pc # "uncaught"

---------------------------------------------------------------------------
(* Claim C34: after any sequence of non-overlapping deploy, stop and       *)
(* cleanup calls, whenever no call is in progress the registry holds a     *)
(* log-stream handle for a project only if a container with that          *)
(* project's name exists.                                                  *)

C34_NoHandleWithoutContainer ==
    AllIdle =>
        \A p \in ProjectIds :
            logStreamers[p] # 0 => containers[getContainerName(p)].status # "absent"

---------------------------------------------------------------------------
(* Claim C35: every deploy call whose PREPARING step completes has removed *)
(* the container that bore the project's name before the call, whatever    *)
(* the later outcome: a deploy that fails at build, run or health check    *)
(* returns with no running container of the project, and with no container *)
(* under its name but one its own run created.                             *)

C35_OldContainerGone ==
    [][\A c \in Callers :
          calls'[c].op = "deploy" =>
              /\ (calls[c].pc \in {"td_inspect", "td_rm"} /\ calls'[c].pc = "build") =>
                    containers'[getContainerName(calls'[c].p)].status = "absent"
              /\ (calls[c].pc # "done" /\ calls'[c].pc = "done" /\ calls'[c].out = "failure") =>
                    LET now == containers'[getContainerName(calls'[c].p)]
                    IN  /\ now.status # "running"
                        /\ now.status # "absent" =>
                              /\ calls'[c].made # 0
                              /\ now.id = calls'[c].made
                              /\ now.status = "created"]_vars

\* a deploy that found the project's container running has failed at build
\* and returned, and the project has no container
C35_Witness ==
    \E c \in Callers :
        /\ calls[c].op = "deploy"
        /\ calls[c].pc = "done"
        /\ calls[c].out = "failure"
        /\ calls[c].found = "running"
        /\ calls[c].built # "ok"
        /\ containers[getContainerName(calls[c].p)].status = "absent"

---------------------------------------------------------------------------
(* Claim C36: a deploy call that returns success=false has deleted no      *)
(* image and has left the project's entry in the log-stream registry as it *)
(* was before the call: images are deleted and the log stream is attached  *)
(* only by a deploy whose health check has passed, and such a deploy does  *)
(* not return a failure afterwards.                                        *)

C36_FailureDeletesNothing ==
    [][\A c \in Callers :
          calls'[c].op = "deploy" =>
              /\ Range(images) \ Range(images') # {} =>
                    calls[c].pc = "prune_rm" /\ calls[c].healthy
              /\ logStreamers' # logStreamers =>
                    calls[c].pc = "attach" /\ calls[c].healthy
              /\ (calls[c].pc # "done" /\ calls'[c].pc = "done" /\ calls'[c].out # "success") =>
                    /\ calls[c].pc \notin {"prune_rm", "attach"}
                    /\ logStreamers'[calls'[c].p] = calls'[c].prev
                    /\ \A i \in DOMAIN calls'[c].trace :
                          calls'[c].trace[i] \notin {"rmi", "rmi failed", "attach"}]_vars

\* a deploy has returned the failure of its health check while the project
\* has a registered log stream and more images than pruning keeps
C36_Witness ==
    \E c \in Callers :
        /\ calls[c].op = "deploy"
        /\ calls[c].pc = "done"
        /\ calls[c].out = "failure"
        /\ calls[c].err = "Health check failed"
        /\ calls[c].prev # 0
        /\ logStreamers[calls[c].p] = calls[c].prev
        /\ toRemove(images, calls[c].p, KeepCount) # <<>>

---------------------------------------------------------------------------
(* Claim C37: the pruning step of a successful deploy never deletes the    *)
(* image that the just-started container runs: the image of the deployed   *)
(* (project, build) pair is among the images pruning retains and not among *)
(* those it removes, also when the deploy builds again a build identifier  *)
(* whose image existed and more than 3 newer images of the project exist.  *)

C37_DeployedImageRetained ==
    \A c \in Callers :
        (/\ calls[c].op = "deploy"
         /\ \/ calls[c].pc \in {"prune_rm", "attach"}
            \/ calls[c].pc = "done" /\ calls[c].out = "success") =>
            LET image == getImageName(calls[c].p, calls[c].b)
            IN  /\ image \in Range(images)
                /\ image \notin Range(toRemove(calls[c].listed, calls[c].p, calls[c].keep))

---------------------------------------------------------------------------
(* Claim C38: sanitizing is idempotent: for every recipe r and internal    *)
(* port p, sanitizing the sanitized recipe again gives the sanitized       *)
(* recipe, also when the first pass turned lines into comments.            *)

C38_SanitizeIdempotent ==
    Sanitized =>
        sanitizeDockerfile(build.sanitized, build.internalPort) = build.sanitized

---------------------------------------------------------------------------
(* Claim C39: with calls that do not overlap, the run step of a deploy     *)
(* never finds a container under the project's name: PREPARING has removed *)
(* the container it found, whether that was running, exited, or created    *)
(* and never started by an earlier failed run, and `docker run` therefore  *)
(* never fails on a name that is taken.                                    *)

LeftoverStates == {"running", "exited", "created"}

C39_RunFindsNoLeftover ==
    \A c \in Callers :
        (calls[c].op = "deploy" /\ calls[c].pc \in {"build", "run"}) =>
            /\ containers[Name(c)].status = "absent"
            /\ calls[c].found \in LeftoverStates => Has(calls[c].trace, "rm")
            /\ calls[c].pc = "run" /\ getImageName(calls[c].p, calls[c].b) \in Range(images)
                   => "started" \in RunOutcomes(containers, images, Name(c),
                                                getImageName(calls[c].p, calls[c].b))

\* a deploy is about to run after removing the container an earlier deploy's
\* failed run had created and left
C39_Witness ==
    \E c \in Callers :
        /\ calls[c].op = "deploy"
        /\ calls[c].pc = "run"
        /\ calls[c].found = "created"
        /\ Has(calls[c].trace, "rm")
        /\ containers[Name(c)].status = "absent"

=======================================================================
